---- MODULE Spec2Model ----
(***************************************************************************)
(* Model of the asterisk-api call orchestrator (src/src/ari-connection.ts, *)
(* src/src/call-manager.ts, src/src/audio-capture.ts, the TTS manager and  *)
(* the ASR client).  One call is followed through the registry, the        *)
(* inbound and outbound flows, the switch's events and the operations the  *)
(* REST surface invokes.  Every action is one run-to-completion segment of *)
(* a handler: the code between two awaits.                                 *)
(***************************************************************************)
EXTENDS FiniteSets, Integers, Sequences, TLC

\* ---------------------------------------------------------------- bounds
\* API operations (hangup, speak, playMedia, ...) invoked in one behaviour
MaxOps == 2
\* concurrent speak() invocations
MaxSpeaks == 2
\* AudioCapture instances created in one behaviour
MaxCaptures == 2
\* transcription messages the ASR server sends on one socket
MaxMsgs == 2
\* audio frames streamed to the ASR server on one socket
MaxFrames == 1
\* chunks of one streamAudio call (totalChunks)
MaxChunks == 2
MaxRateSteps == 400
MaxStops == 2
MaxTimeMs == 580
MaxLateMs == 5
\* AudioPlayback sessions created for one call
MaxSessions == 2
\* startPlayback / stopPlayback / cancelPlayback calls in one behaviour
MaxPlaybackOps == 3
\* connect() calls of the switch adapter in one behaviour
MaxConnects == 5
\* switch events delivered to the adapter in one behaviour
MaxAdapterEvents == 4

\* ---------------------------------------------------------------- names
Cid == "c1"
SpeakIds == 1..MaxSpeaks
CapIds == 1..MaxCaptures

CallStates == {"initiating", "ringing", "answered", "ready", "playing",
               "speaking", "recording", "bridged", "ended", "failed"}

WebhookTypes == {"call.inbound", "call.answered", "call.ready", "call.ended"}

EmptyMap == [x \in {} |-> 0]

VARIABLES
  \* --- call registry (CallManager)
  calls,          \* CallManager.calls: callId -> CallRecord
  cleanupTimers,  \* CallManager.cleanupTimers: ids with a tracked timer
  cleanupPending, \* number of armed 5-minute removal timers
  webhooks,       \* notifyWebhook POSTs issued, by event type
  endedEvents,    \* call.ended events emitted by CallManager.end
  \* --- the switch
  chan,           \* the call's channel on the switch
  inStasis,       \* the channel is inside the Stasis application
  evq,            \* switch events in flight to the application (FIFO)
  swPlaybacks,    \* playbacks running on the call's channel
  swRecording,    \* a recording is running on the call's channel
  swRes,          \* switch resources allocated for each AudioCapture
  \* --- inbound / outbound flow
  flow,           \* position of the inbound / outbound flow
  answerReq,      \* channel.answer() request of the ring-delay timer
  origReq,        \* channel.originate() request
  \* --- operations invoked through the REST surface
  opsLeft,        \* API invocations still allowed by MaxOps
  hangupReq,      \* channels.hangup() request of the hangup operation
  hangupReason,   \* reason argument of the pending hangup
  play,           \* the playMedia operation: [pc, prev]
  recording,      \* the startRecording operation: [pc, prev, finished]
  bridgeOp,       \* addChannelToBridge / removeChannelFromBridge in progress
  stopOp,         \* the stopAudioCapture operation: [pc, target]
  capOp,          \* the startAudioCapture operation: result of the last call
  \* --- TTS
  inFlight,       \* TtsManager.inFlight: controller registered for the call
  aborted,        \* controllers on which abort() was called
  speak,          \* speak invocations: [pc, prev, playPrev]
  playedAudio,    \* speaks whose synthesized audio was played into the call
  \* --- audio capture
  captures,       \* AudioCaptureManager.captures: instance registered
  cap,            \* AudioCapture instances: [pc, active, starter] and, for
                  \* the record of a start() racing the call's end, ends /
                  \* raced (see StartCapture, Raced)
  stasisEnd,      \* StasisEnd handler awaiting stopCapture: [pc, target]
  \* --- ASR
  clients,        \* AsrManager.clients: client registered for the call
  asr,            \* AsrClient of each capture instance: [ws, closed]
  \* --- one AsrClient and its socket, step by step (SpecAsr)
  asrWs,          \* readyState of the client's WebSocket
  asrWsRef,       \* AsrClient.ws is set
  asrClosed,      \* AsrClient.closed
  closePc,        \* AsrClient.close(): idle, waiting (in flushAndWait), done
  toServer,       \* frames in flight from the client to the ASR server
  toClient,       \* frames in flight from the ASR server to the client
  srvOpen,        \* the server's end of the socket is open
  frames,         \* audio frames sent so far
  msgs,           \* transcriptions the server has sent, by message id:
                  \* final, afterFlush (sent with the flush received),
                  \* beforeClose (sent before the client's ws.close())
  log,            \* what happened at the client, in order: flush sent,
                  \* transcription emitted, ws.close() called, disconnected
  \* --- one AudioPlayback and its stream (SpecPlayback)
  pbActive,       \* AudioPlayback.active
  pbWs,           \* the playback's media socket: its readyState and whether
                  \* AudioPlayback.audioWs still refers to it: [state, ref]
  pbBuf,          \* audioWs.bufferedAmount: zero, low, mid, high
  pbCancelled,    \* AudioPlayback.cancelled
  pbStreaming,    \* AudioPlayback.streaming
  pbTimer,        \* the setTimeout stored in streamTimer is armed
  pbPc,           \* the streamAudio promise: idle, frameWait, backpressure,
                  \* drain, resolved, rejected
  pbChunk,        \* chunkIndex
  pbStop,         \* stop(): idle, cleanup (awaiting the releases), done
  pbLate,         \* a frame was sent after cancel / stop
  \* --- transferCall (SpecTransfer)
  stoppedEvents,  \* "stopped" events each AudioCapture instance has emitted
  origAllowed,    \* isOutboundAllowed(destination) of the originate() call
  speakErr,       \* status code of the error the last failed speak threw
  xfer,           \* the transferCall operation: pc, the transfer bridge on
                  \* the switch (sw) and in CallManager.bridges (reg), the
                  \* target leg, the error thrown (result) and whether the
                  \* destroy request of the failure path succeeded
  slinIn,         \* sample rate last passed to slinFormatName (0: none yet)
  slinOut,        \* codec name it returned ("none": not called yet)
  td,             \* teardown of one AudioCapture: active flag, handles held,
                  \* handles it had when it became active (had), releases
                  \* sent (attempted), unsettled (pending) and failed, whether
                  \* a stop() awaits its releases (waiting), stop() calls made
                  \* and returned, and whether one returned with a release
                  \* still unsettled (early)
  stm,             \* streamAudio against the clock: pc, the clock (now, ms),
                  \* startTime, chunkIndex (idx), the armed timer's due time,
                  \* bufferedAmount (buf), the drain deadline (dl), whether
                  \* the socket is open, and whether some frame i went out
                  \* before startTime + i * chunkMs (early) or straight
                  \* after a backpressure wait (resumed)
  rc,             \* one ASR session with its reconnecting AsrClient: the
                  \* closed flag, reconnectAttempts, whether reconnectTimer
                  \* is armed, whether this.ws is set, the state of the
                  \* newest socket (sock), close() calls suspended in
                  \* flushAndWait (flushing), endSession calls made (calls),
                  \* close() calls returned (done), whether one threw,
                  \* whether max_reconnect_attempts was emitted (terminal),
                  \* the entry in AsrManager.clients (session), and who
                  \* awaits connect() (connecting)
  pm,             \* AudioPlaybackManager for one call: the session its
                  \* playbacks entry refers to (0: none), sessions created
                  \* (made), each session's pc and whether it holds switch
                  \* resources (res), the manager calls in progress (ops),
                  \* and whether a "stopped" event removed the entry of
                  \* another session (stale)
  intl,           \* StasisStart of an internal channel: the prefix of its
                  \* id ("none": no such event yet), and whether the handler
                  \* checked it against the inbound allowlist, hung it up,
                  \* created a CallRecord for it, armed a ring-delay timer
  ac,             \* AriConnection: whether a connect() is awaiting the switch
                  \* (pc), reconnectTimer armed, the client this.ari refers to
                  \* (0: null), the connected flag, clients created, the
                  \* clients that have the event handlers installed, were
                  \* started, were stopped, connect() calls made and failed,
                  \* whether disconnect() has completed (disc), the switch
                  \* events delivered and the handler runs they caused
  pbs             \* AudioPlaybackManager.startPlayback of one session: pc,
                  \* handles the AudioPlayback holds (held), what exists on
                  \* the switch (res), releases sent (rel), requests that
                  \* timed out and are still pending on the switch (late),


regVars == <<calls, cleanupTimers, cleanupPending, webhooks, endedEvents>>
swVars == <<chan, inStasis, evq, swPlaybacks, swRecording, swRes>>
flowVars == <<flow, answerReq, origReq>>
opVars == <<opsLeft, hangupReq, hangupReason, play, recording, bridgeOp,
            stopOp, capOp>>
ttsVars == <<inFlight, aborted, speak, playedAudio>>
capVars == <<captures, cap, stasisEnd>>
wireVars == <<asrWs, asrWsRef, asrClosed, closePc, toServer, toClient,
              srvOpen, frames, msgs, log>>
asrVars == <<clients, asr, wireVars>>
pbVars == <<pbActive, pbWs, pbBuf, pbCancelled, pbStreaming, pbTimer, pbPc,
            pbChunk, pbStop, pbLate>>
slinVars == <<slinIn, slinOut>>
lateVars == <<pbs, td, stm, rc, pm, intl, ac>>
miscVars == <<slinVars, lateVars>>
sideVars == <<pbVars, miscVars, xfer, speakErr, origAllowed, stoppedEvents>>

vars == <<regVars, swVars, flowVars, opVars, ttsVars, capVars, asrVars, sideVars>>

\* ------------------------------------------------------- CallManager
Has(cs) == Cid \in DOMAIN cs
StateOf(cs) == IF Has(cs) THEN cs[Cid].state ELSE "none"

NewRecord(st, dir) ==
  [state |-> st, direction |-> dir, answeredAt |-> FALSE, endedAt |-> FALSE,
   hangupCause |-> "none", bridgeId |-> "none", audioCapture |-> "none"]

create(cs, rec) == (Cid :> rec) @@ cs

updateState(cs, st, extraAnswered) ==
  IF ~Has(cs) THEN cs
  ELSE [cs EXCEPT ![Cid].state = st,
                  ![Cid].answeredAt = IF extraAnswered THEN TRUE ELSE @]

end(cs, cause) ==
  IF ~Has(cs) THEN cs
  ELSE [cs EXCEPT ![Cid].state = "ended", ![Cid].endedAt = TRUE,
                  ![Cid].hangupCause = cause]

Notify(w, type) == [w EXCEPT ![type] = @ + 1]

\* CallManager.setBridge / clearBridge
setBridge(cs) ==
  IF ~Has(cs) THEN cs
  ELSE [cs EXCEPT ![Cid].bridgeId = "b1", ![Cid].state = "bridged"]

clearBridge(cs) ==
  IF ~Has(cs) THEN cs
  ELSE [cs EXCEPT ![Cid].bridgeId = "none",
                  ![Cid].state = IF @ = "bridged" THEN "answered" ELSE @]

\* The state an operation restores on completion: speak / playMedia fall
\* back to "answered" when the saved state is their own working state.
Restore(prev, working) == IF prev = working THEN "answered" ELSE prev

\* ------------------------------------------------------------ switch
Ev(type, tag) == [type |-> type, tag |-> tag]
NoTag == <<"", 0>>
GreetTag == <<"greeting", 0>>
PlayTag == <<"play", 0>>
SpeakTag(s) == <<"speak", s>>

Alive(c) == c \in {"down", "ringing", "ring", "up"}

Range(q) == {q[i] : i \in DOMAIN q}

RECURSIVE SetToSeq(_)
SetToSeq(S) ==
  IF S = {} THEN <<>>
  ELSE LET x == CHOOSE y \in S : TRUE IN <<x>> \o SetToSeq(S \ {x})

\* Events the switch sends when the call's channel is destroyed: running
\* playbacks and the recording finish, the channel leaves the application
\* (StasisEnd) and is destroyed.
GoneEvents(dir, stasis, playbacks, recOn) ==
  [i \in 1..Cardinality(playbacks) |->
      Ev("PlaybackFinished", SetToSeq(playbacks)[i])]
  \o (IF recOn THEN <<Ev("RecordingFinished", NoTag)>> ELSE <<>>)
  \o (IF stasis THEN <<Ev("StasisEnd", NoTag)>> ELSE <<>>)
  \o (IF dir = "outbound" THEN <<Ev("ChannelDestroyed", NoTag)>> ELSE <<>>)

InboundFlow == {"timer", "answering", "greetReq", "greeting", "beepReq",
                "inDone", "noAnswer", "denied"}
Direction == IF flow \in InboundFlow THEN "inbound" ELSE "outbound"

\* The channel is destroyed on the switch (remote hangup or hangup request).
ChannelGone ==
  /\ chan' = "gone"
  /\ inStasis' = FALSE
  /\ swPlaybacks' = {}
  /\ swRecording' = FALSE
  /\ evq' = evq \o GoneEvents(Direction, inStasis, swPlaybacks, swRecording)
  \* a snoop channel does not outlive the channel it spies on
  /\ swRes' = [k \in CapIds |-> swRes[k] \ {"snoop"}]

\* ------------------------------------------------------------ TtsManager
\* TtsManager.cancel: abort the registered controller and forget it.
cancelAborted(inf, ab) == IF inf # 0 THEN ab \cup {inf} ELSE ab

\* TtsClient.synthesize issues fetch() with its own timeout controller; the
\* controller TtsManager registers is never handed to it, so abort() on the
\* manager's controller does not end the request.
FetchAbortedBy(ab, s) == FALSE

\* ------------------------------------------------------------ AsrManager
\* AsrManager.startSession up to its first await: refuse a second session,
\* else register the client and start connecting.
startSessionClients(cl, k) == IF cl # 0 THEN cl ELSE k
startSessionAsr(cl, a, k) ==
  IF cl # 0 THEN a ELSE [a EXCEPT ![k] = [ws |-> "connecting", closed |-> FALSE]]

\* AsrManager.endSession / AsrClient.close up to the first await: an open
\* socket gets a flush and is closed later; otherwise the reference to the
\* socket is dropped at once and the client is forgotten.
endSessionAsr(cl, a) ==
  IF cl = 0 THEN a
  ELSE [a EXCEPT ![cl] =
          [ws |-> CASE a[cl].ws = "open" -> "flushing"
                    [] a[cl].ws = "connecting" -> "orphanConnecting"
                    [] OTHER -> a[cl].ws,
           closed |-> TRUE]]
endSessionClients(cl, a) ==
  IF cl # 0 /\ a[cl].ws \in {"open", "flushing"} THEN cl ELSE 0

AsrLive(a) == {k \in CapIds : a[k].ws \in {"connecting", "open", "flushing",
                                            "orphanConnecting", "orphanOpen"}}

\* ------------------------------------------------------------ Init
Init ==
  /\ calls = EmptyMap
  /\ cleanupTimers = {}
  /\ cleanupPending = 0
  /\ webhooks = [t \in WebhookTypes |-> 0]
  /\ endedEvents = 0
  /\ chan = "none"
  /\ inStasis = FALSE
  /\ evq = <<>>
  /\ swPlaybacks = {}
  /\ swRecording = FALSE
  /\ swRes = [k \in CapIds |-> {}]
  /\ flow = "idle"
  /\ answerReq = "none"
  /\ origReq = "none"
  /\ opsLeft = MaxOps
  /\ hangupReq = "none"
  /\ hangupReason = "none"
  /\ play = [pc |-> "idle", prev |-> "none"]
  /\ recording = [pc |-> "idle", prev |-> "none", finished |-> FALSE]
  /\ bridgeOp = "idle"
  /\ stopOp = [pc |-> "idle", target |-> 0]
  /\ capOp = "none"
  /\ inFlight = 0
  /\ aborted = {}
  /\ speak = [s \in SpeakIds |-> [pc |-> "idle", prev |-> "none", playPrev |-> "none"]]
  /\ playedAudio = {}
  /\ captures = 0
  /\ cap = [k \in CapIds |-> [pc |-> "none", active |-> FALSE, starter |-> "none",
                             ends |-> 0, raced |-> FALSE]]
  /\ stasisEnd = [pc |-> "idle", target |-> 0]
  /\ clients = 0
  /\ asr = [k \in CapIds |-> [ws |-> "none", closed |-> FALSE]]
  /\ asrWs = "CONNECTING"
  /\ asrWsRef = TRUE
  /\ asrClosed = FALSE
  /\ closePc = "idle"
  /\ toServer = <<>>
  /\ toClient = <<>>
  /\ srvOpen = FALSE
  /\ frames = 0
  /\ msgs = <<>>
  /\ log = <<>>
  /\ pbActive = TRUE
  /\ pbWs = [state |-> "OPEN", ref |-> TRUE]
  /\ pbBuf = "zero"
  /\ pbCancelled = FALSE
  /\ pbStreaming = FALSE
  /\ pbTimer = FALSE
  /\ pbPc = "idle"
  /\ pbChunk = 0
  /\ pbStop = "idle"
  /\ pbLate = FALSE
  /\ speakErr = "none"
  /\ slinIn = 0
  /\ slinOut = "none"
  /\ td = [active |-> FALSE, held |-> {}, had |-> {}, attempted |-> {},
           pending |-> {}, failed |-> {}, waiting |-> FALSE, calls |-> 0,
           returned |-> 0, early |-> FALSE]
  /\ stm = [pc |-> "idle", now |-> 0, start |-> 0, idx |-> 0, due |-> 0,
            buf |-> 0, dl |-> 0, open |-> TRUE, early |-> FALSE,
            resumed |-> FALSE]
  /\ pbs = [pc |-> "idle", held |-> {}, res |-> {}, rel |-> {}, late |-> {},
            entry |-> FALSE, err |-> FALSE]
  /\ rc = [closed |-> FALSE, attempts |-> 0, timer |-> FALSE, ws |-> FALSE,
           sock |-> "none", flushing |-> 0, calls |-> 0, done |-> 0,
           threw |-> FALSE, terminal |-> FALSE, session |-> FALSE,
           started |-> FALSE, connecting |-> "none"]
  /\ pm = [entry |-> 0, made |-> 0, stale |-> FALSE,
           sess |-> [i \in 1..MaxSessions |-> [pc |-> "none", res |-> FALSE]],
           ops |-> [o \in 1..MaxPlaybackOps |->
                      [pc |-> "idle", kind |-> "none", on |-> 0]]]
  /\ intl = [prefix |-> "none", record |-> FALSE, checked |-> FALSE,
             hangup |-> FALSE, ringTimer |-> FALSE]
  /\ ac = [pc |-> "idle", timer |-> FALSE, ari |-> 0, connected |-> FALSE,
           clients |-> 0, handlers |-> {}, started |-> {}, stopped |-> {},
           connects |-> 0, failures |-> 0, disc |-> FALSE, events |-> 0,
           handled |-> 0]
  /\ origAllowed = "none"
  /\ stoppedEvents = [k \in CapIds |-> 0]
  /\ xfer = [pc |-> "idle", sw |-> FALSE, reg |-> FALSE, target |-> "none",
             result |-> "none", destroyed |-> FALSE]

\* ------------------------------------------------------------ allowlist
\* extractNumberFromEndpoint looks for runs of 7 or more digits
MinNumberDigits == 7
Digits == {"0", "1", "2", "3", "4", "5", "6", "7", "8", "9"}
IsDigit(ch) == ch \in Digits
\* normalizeNumber: drop every non-digit character
normalizeNumber(input) == SelectSeq(input, IsDigit)
\* isInboundAllowed: an empty list allows all; no caller id is blocked
isInboundAllowed(inboundList, callerId) ==
  IF inboundList = {} THEN TRUE
  ELSE IF normalizeNumber(callerId) = <<>> THEN FALSE
  ELSE normalizeNumber(callerId) \in inboundList

\* extractNumberFromEndpoint: the longest run of at least MinNumberDigits
\* digits (the first of the longest), or the empty string.
extractNumberFromEndpoint(endpoint) ==
  LET n == Len(endpoint)
      runs == {r \in (1..n) \X (1..n) :
                 /\ r[2] - r[1] + 1 >= MinNumberDigits
                 /\ \A i \in r[1]..r[2] : IsDigit(endpoint[i])
                 /\ (r[1] = 1 \/ ~IsDigit(endpoint[r[1] - 1]))
                 /\ (r[2] = n \/ ~IsDigit(endpoint[r[2] + 1]))}
      best == CHOOSE r \in runs : \A q \in runs :
                \/ r[2] - r[1] > q[2] - q[1]
                \/ (r[2] - r[1] = q[2] - q[1] /\ r[1] <= q[1])
  IN IF runs = {} THEN <<>> ELSE SubSeq(endpoint, best[1], best[2])
\* isOutboundAllowed: an empty list allows all; an endpoint without a
\* number is blocked
isOutboundAllowed(outboundList, endpoint) ==
  IF outboundList = {} THEN TRUE
  ELSE LET number == extractNumberFromEndpoint(endpoint)
       IN IF number = <<>> THEN FALSE ELSE number \in outboundList
\* outbound lists and endpoints of originate()
OutboundInputs ==
  [list : {{}, {<<"6", "5", "9", "6", "5", "4", "2">>}},
   endpoint : {<<"P", "/", "6", "5", "9", "6", "5", "4", "2">>,
               <<"P", "/", "6", "1", "1", "1", "1", "1", "1">>,
               <<"P", "/", "1", "0", "0">>}]

Callers == {<<>>, <<"5", "5", "1">>, <<"5", "-", "5", "1">>, <<"9">>}
InboundLists == {{}, {<<"5", "5", "1">>}}

\* ------------------------------------------------------------ registry effects
\* CallManager.end on the registry cs: mark ended, emit call.ended and arm
\* the removal timer (nothing at all when the record is missing).
EndCall(cs, cause) ==
  /\ calls' = end(cs, cause)
  /\ endedEvents' = IF Has(cs) THEN endedEvents + 1 ELSE endedEvents
  /\ cleanupPending' = IF Has(cs) THEN cleanupPending + 1 ELSE cleanupPending
  /\ cleanupTimers' = IF Has(cs) THEN cleanupTimers \cup {Cid} ELSE cleanupTimers

\* The removal timer armed by end() fires.
CleanupFires ==
  /\ cleanupPending > 0
  /\ cleanupPending' = cleanupPending - 1
  /\ calls' = EmptyMap
  /\ cleanupTimers' = {}
  /\ UNCHANGED <<webhooks, endedEvents, swVars, flowVars, opVars, ttsVars,
                 capVars, asrVars, sideVars>>

\* ------------------------------------------------------------ capture start
HasFresh == \E k \in CapIds : cap[k].pc = "none"
Fresh == CHOOSE k \in CapIds : cap[k].pc = "none" /\
            \A j \in CapIds : cap[j].pc = "none" => k <= j
FreshCount == Cardinality({k \in CapIds : cap[k].pc = "none"})

\* startAudioCapture / AudioCaptureManager.startCapture up to the first
\* await, on registry cs: "not-found" and "exists" throw at once, otherwise
\* a new AudioCapture is registered and its snoop request is sent.
StartOutcome(cs) ==
  IF ~Has(cs) THEN "not-found"
  ELSE IF captures # 0 THEN "exists"
  ELSE "started"

\* "ends" notes how many times the call had ended when start() began and
\* "raced" whether it had ended by then; start()'s completion adds to
\* "raced" whether the call ended meanwhile.
Raced(k) == cap[k].raced \/ endedEvents > cap[k].ends

StartCapture(cs, starter) ==
  IF StartOutcome(cs) = "started"
  THEN /\ cap' = [cap EXCEPT ![Fresh] =
                    [pc |-> "snoopReq", active |-> FALSE, starter |-> starter,
                     ends |-> endedEvents, raced |-> cs[Cid].endedAt]]
       /\ captures' = Fresh
  ELSE UNCHANGED <<cap, captures>>

\* ------------------------------------------------------------ inbound flow
\* StasisStart handler for a new inbound channel.
InboundStasisStart ==
  /\ flow = "idle" /\ chan = "none"
  /\ \E list \in InboundLists, caller \in Callers :
       IF isInboundAllowed(list, caller)
       THEN /\ calls' = create(calls, NewRecord("ringing", "inbound"))
            /\ webhooks' = Notify(webhooks, "call.inbound")
            /\ flow' = "timer"
            /\ chan' = "ring"
            /\ inStasis' = TRUE
       ELSE \* blocked: channel.hangup(), no record
            /\ flow' = "denied"
            /\ chan' = "gone"
            /\ UNCHANGED <<calls, webhooks, inStasis>>
  /\ UNCHANGED <<cleanupTimers, cleanupPending, endedEvents, evq, swPlaybacks,
                 swRecording, swRes, answerReq, origReq, opVars, ttsVars, capVars, asrVars, sideVars>>

\* The ring-delay timer fires.
RingTimerFires ==
  /\ flow = "timer"
  /\ IF ~Has(calls) \/ StateOf(calls) = "ended"
     THEN /\ flow' = "noAnswer"
          /\ UNCHANGED answerReq
     ELSE /\ flow' = "answering"
          /\ answerReq' = "sent"
  /\ UNCHANGED <<regVars, swVars, origReq, opVars, ttsVars, capVars, asrVars, sideVars>>

\* The switch processes the answer request: the channel goes Up and the
\* switch reports a ChannelStateChange; the response travels separately.
SwitchAnswer ==
  /\ answerReq = "sent"
  /\ IF Alive(chan)
     THEN /\ answerReq' = "ok"
          /\ chan' = "up"
          /\ evq' = IF chan # "up" THEN Append(evq, Ev("Up", NoTag)) ELSE evq
     ELSE /\ answerReq' = "err"
          /\ UNCHANGED <<chan, evq>>
  /\ UNCHANGED <<regVars, inStasis, swPlaybacks, swRecording, swRes, flow,
                 origReq, opVars, ttsVars, capVars, asrVars, sideVars>>

\* channel.answer() resolved: mark answered, notify, request the greeting.
AnswerResolved ==
  /\ flow = "answering" /\ answerReq = "ok"
  /\ answerReq' = "done"
  /\ calls' = updateState(calls, "answered", TRUE)
  /\ webhooks' = Notify(webhooks, "call.answered")
  /\ flow' = "greetReq"
  /\ UNCHANGED <<cleanupTimers, cleanupPending, endedEvents, swVars, origReq,
                 opVars, ttsVars, capVars, asrVars, sideVars>>

\* channel.answer() rejected: logged, the flow stops.
AnswerRejected ==
  /\ flow = "answering" /\ answerReq = "err"
  /\ answerReq' = "done"
  /\ flow' = "inDone"
  /\ UNCHANGED <<regVars, swVars, origReq, opVars, ttsVars, capVars, asrVars, sideVars>>

\* Response to channel.play(greeting).
GreetingPlayResponse ==
  /\ flow = "greetReq"
  /\ \/ /\ chan = "up"
        /\ flow' = "greeting"
        /\ swPlaybacks' = swPlaybacks \cup {GreetTag}
     \/ /\ flow' = "inDone"
        /\ UNCHANGED swPlaybacks
  /\ UNCHANGED <<regVars, chan, inStasis, evq, swRecording, swRes, answerReq,
                 origReq, opVars, ttsVars, capVars, asrVars, sideVars>>

\* PlaybackFinished of the greeting: request the beep.
OnGreetingFinished ==
  /\ evq # <<>> /\ Head(evq) = Ev("PlaybackFinished", GreetTag)
  /\ evq' = Tail(evq)
  /\ flow' = IF flow = "greeting" THEN "beepReq" ELSE flow
  /\ UNCHANGED <<regVars, chan, inStasis, swPlaybacks, swRecording, swRes,
                 answerReq, origReq, opVars, ttsVars, capVars, asrVars, sideVars>>

\* channel.play(beep) settled (either way): mark ready, notify, auto-start
\* the capture pipeline.
BeepResponse ==
  /\ flow = "beepReq"
  /\ StartOutcome(updateState(calls, "ready", FALSE)) = "started" => HasFresh
  /\ flow' = "inDone"
  /\ calls' = updateState(calls, "ready", FALSE)
  /\ webhooks' = Notify(webhooks, "call.ready")
  /\ StartCapture(calls, "flow")
  /\ UNCHANGED <<cleanupTimers, cleanupPending, endedEvents, swVars, answerReq,
                 origReq, opVars, ttsVars, stasisEnd, asrVars, sideVars>>

\* A playback on the call's channel runs to its end on the switch.
SwitchPlaybackDone ==
  /\ \E t \in swPlaybacks :
       /\ swPlaybacks' = swPlaybacks \ {t}
       /\ evq' = Append(evq, Ev("PlaybackFinished", t))
  /\ UNCHANGED <<regVars, chan, inStasis, swRecording, swRes, flowVars, opVars,
                 ttsVars, capVars, asrVars, sideVars>>

\* The remote party hangs up (or the dialled party never answers).
RemoteHangup ==
  /\ Alive(chan)
  /\ ChannelGone
  /\ UNCHANGED <<regVars, flowVars, opVars, ttsVars, capVars, asrVars, sideVars>>

\* ------------------------------------------------------------ outbound flow
\* originate(): requireConnection, then the endpoint lookup is sent.  The
\* outbound allowlist is not consulted; origAllowed notes what
\* isOutboundAllowed says of the destination.
OriginateInvoke ==
  /\ flow = "idle" /\ chan = "none"
  /\ flow' = "checking"
  /\ \E inp \in OutboundInputs :
       origAllowed' = IF isOutboundAllowed(inp.list, inp.endpoint)
                      THEN "allowed" ELSE "denied"
  /\ UNCHANGED <<regVars, swVars, answerReq, origReq, opVars, ttsVars, capVars,
                 asrVars, pbVars, xfer, miscVars, speakErr, stoppedEvents>>

\* checkEndpoint settled: unknown endpoint fails with 404, otherwise the
\* record is created in "initiating" and channel.originate() is sent.
EndpointChecked ==
  /\ flow = "checking"
  /\ \/ /\ flow' = "notFound"
        /\ UNCHANGED <<calls, origReq>>
     \/ /\ flow' = "originating"
        /\ calls' = create(calls, NewRecord("initiating", "outbound"))
        /\ origReq' = "sent"
  /\ UNCHANGED <<cleanupTimers, cleanupPending, webhooks, endedEvents, swVars,
                 answerReq, opVars, ttsVars, capVars, asrVars, sideVars>>

\* The switch processes the originate request: it creates the channel and
\* starts dialling, or rejects the request.
SwitchOriginate ==
  /\ origReq = "sent"
  /\ \/ /\ origReq' = "ok"
        /\ chan' = "down"
     \/ /\ origReq' = "err"
        /\ UNCHANGED chan
  /\ UNCHANGED <<regVars, inStasis, evq, swPlaybacks, swRecording, swRes, flow,
                 answerReq, opVars, ttsVars, capVars, asrVars, sideVars>>

\* channel.originate() resolved.
OriginateResolved ==
  /\ flow = "originating" /\ origReq = "ok"
  /\ origReq' = "done"
  /\ flow' = "outDone"
  /\ calls' = updateState(calls, "ringing", FALSE)
  /\ UNCHANGED <<cleanupTimers, cleanupPending, webhooks, endedEvents, swVars,
                 answerReq, opVars, ttsVars, capVars, asrVars, sideVars>>

\* channel.originate() rejected: updateState("failed") then end().
OriginateRejected ==
  /\ flow = "originating" /\ origReq = "err"
  /\ origReq' = "done"
  /\ flow' = "origFailed"
  /\ EndCall(updateState(calls, "failed", FALSE), "error")
  /\ UNCHANGED <<webhooks, swVars, answerReq, opVars, ttsVars, capVars,
                 asrVars, sideVars>>

\* The dialled endpoint starts ringing.
SwitchRinging ==
  /\ chan = "down"
  /\ chan' = "ringing"
  /\ evq' = Append(evq, Ev("Ringing", NoTag))
  /\ UNCHANGED <<regVars, inStasis, swPlaybacks, swRecording, swRes, flowVars,
                 opVars, ttsVars, capVars, asrVars, sideVars>>

\* The dialled party answers: the channel goes Up and enters the
\* application.
SwitchRemoteAnswer ==
  /\ chan \in {"down", "ringing"}
  /\ chan' = "up"
  /\ inStasis' = TRUE
  /\ evq' = evq \o <<Ev("Up", NoTag), Ev("StasisStart", NoTag)>>
  /\ UNCHANGED <<regVars, swPlaybacks, swRecording, swRes, flowVars, opVars,
                 ttsVars, capVars, asrVars, sideVars>>

\* ------------------------------------------------------------ event handlers
Outbound == Has(calls) /\ calls[Cid].direction = "outbound"

\* ChannelStateChange(Up): the global handler, then (outbound calls) the
\* handler originate() attached to the channel.
OnChannelUp ==
  /\ evq # <<>> /\ Head(evq) = Ev("Up", NoTag)
  /\ evq' = Tail(evq)
  /\ LET global == Has(calls) /\ StateOf(calls) = "ringing"
         cs1 == IF global THEN updateState(calls, "answered", TRUE) ELSE calls
         w1 == IF global THEN Notify(webhooks, "call.answered") ELSE webhooks
         perChannel == flow \notin InboundFlow
     IN /\ calls' = IF perChannel THEN updateState(cs1, "answered", TRUE) ELSE cs1
        /\ webhooks' = IF perChannel THEN Notify(w1, "call.answered") ELSE w1
  /\ UNCHANGED <<cleanupTimers, cleanupPending, endedEvents, chan, inStasis,
                 swPlaybacks, swRecording, swRes, flowVars, opVars, ttsVars,
                 capVars, asrVars, sideVars>>

\* ChannelStateChange(Ringing) on the originated channel.
OnChannelRinging ==
  /\ evq # <<>> /\ Head(evq) = Ev("Ringing", NoTag)
  /\ evq' = Tail(evq)
  /\ calls' = updateState(calls, "ringing", FALSE)
  /\ UNCHANGED <<cleanupTimers, cleanupPending, webhooks, endedEvents, chan,
                 inStasis, swPlaybacks, swRecording, swRes, flowVars, opVars,
                 ttsVars, capVars, asrVars, sideVars>>

\* StasisStart of the originated channel: call.ready broadcast and webhook.
OnOutboundStasisStart ==
  /\ evq # <<>> /\ Head(evq) = Ev("StasisStart", NoTag)
  /\ evq' = Tail(evq)
  /\ webhooks' = Notify(webhooks, "call.ready")
  /\ UNCHANGED <<calls, cleanupTimers, cleanupPending, endedEvents, chan,
                 inStasis, swPlaybacks, swRecording, swRes, flowVars, opVars,
                 ttsVars, capVars, asrVars, sideVars>>

\* ChannelDestroyed of the originated channel.
OnChannelDestroyed ==
  /\ evq # <<>> /\ Head(evq) = Ev("ChannelDestroyed", NoTag)
  /\ evq' = Tail(evq)
  /\ IF Has(calls) /\ StateOf(calls) # "ended"
     THEN /\ EndCall(calls, "hangup")
          /\ webhooks' = Notify(webhooks, "call.ended")
     ELSE UNCHANGED regVars
  /\ UNCHANGED <<chan, inStasis, swPlaybacks, swRecording, swRes, flowVars,
                 opVars, ttsVars, capVars, asrVars, sideVars>>

\* ------------------------------------------------------------ capture stop
\* AudioCapture.stop() on instance k: nothing when the instance is not
\* active; otherwise cleanup() closes the socket and sends the releases
\* ("wait"), unless an earlier stop() already took the handles, in which
\* case cleanup() has nothing to await ("immediate").
StopMode(k) ==
  IF ~cap[k].active THEN "noop"
  ELSE IF cap[k].pc = "active" THEN "wait"
  ELSE "immediate"

\* AudioCaptureManager.stopCapture up to the point where it has to wait.
StopBegin(k) ==
  /\ cap' = CASE StopMode(k) = "wait" -> [cap EXCEPT ![k].pc = "stopping"]
              [] StopMode(k) = "immediate" -> [cap EXCEPT ![k].active = FALSE]
              [] OTHER -> cap
  /\ swRes' = IF StopMode(k) = "wait"
              THEN [swRes EXCEPT ![k] = @ \ {"ws"}] ELSE swRes
  /\ asr' = IF StopMode(k) = "immediate" THEN endSessionAsr(clients, asr) ELSE asr
  /\ clients' = IF StopMode(k) = "immediate"
                THEN endSessionClients(clients, asr) ELSE clients
  /\ captures' = IF StopMode(k) = "wait" THEN captures ELSE 0
  /\ stoppedEvents' = IF StopMode(k) = "immediate"
                      THEN [stoppedEvents EXCEPT ![k] = @ + 1]
                      ELSE stoppedEvents
  /\ UNCHANGED <<wireVars, pbVars, xfer, miscVars, speakErr, origAllowed>>

\* The releases of cleanup() have settled: the instance turns inactive and
\* emits "stopped" (capture.stopped handler ends the ASR session, the
\* manager forgets the capture).
StopSettle(k) ==
  /\ cap' = [cap EXCEPT ![k].pc = "stopped", ![k].active = FALSE]
  /\ swRes' = [swRes EXCEPT ![k] = {}]
  /\ asr' = endSessionAsr(clients, asr)
  /\ clients' = endSessionClients(clients, asr)
  /\ captures' = 0
  /\ stoppedEvents' = [stoppedEvents EXCEPT ![k] = @ + 1]
  /\ UNCHANGED <<wireVars, pbVars, xfer, miscVars, speakErr, origAllowed>>

\* ------------------------------------------------------------ StasisEnd
OnStasisEnd ==
  /\ evq # <<>> /\ Head(evq) = Ev("StasisEnd", NoTag)
  /\ evq' = Tail(evq)
  /\ IF Has(calls) /\ StateOf(calls) # "ended"
     THEN /\ inFlight' = 0
          /\ aborted' = cancelAborted(inFlight, aborted)
          /\ IF captures # 0
             THEN /\ StopBegin(captures)
                  /\ IF StopMode(captures) = "wait"
                     THEN /\ stasisEnd' = [pc |-> "waiting", target |-> captures]
                          /\ UNCHANGED regVars
                     ELSE /\ EndCall(calls, "normal")
                          /\ webhooks' = Notify(webhooks, "call.ended")
                          /\ UNCHANGED stasisEnd
             ELSE /\ EndCall(calls, "normal")
                  /\ webhooks' = Notify(webhooks, "call.ended")
                  /\ UNCHANGED <<swRes, capVars, asrVars, sideVars>>
     ELSE UNCHANGED <<regVars, swRes, inFlight, aborted, capVars, asrVars, sideVars>>
  /\ UNCHANGED <<chan, inStasis, swPlaybacks, swRecording, flowVars, opVars,
                 speak, playedAudio>>

\* stopCapture awaited by the StasisEnd handler has settled.
StasisEndStopSettled ==
  /\ stasisEnd.pc = "waiting"
  /\ StopSettle(stasisEnd.target)
  /\ stasisEnd' = [pc |-> "idle", target |-> 0]
  /\ EndCall(calls, "normal")
  /\ webhooks' = Notify(webhooks, "call.ended")
  /\ UNCHANGED <<chan, inStasis, evq, swPlaybacks, swRecording, flowVars,
                 opVars, ttsVars>>

\* ------------------------------------------------------------ hangup
HangupReasons == {"normal", "busy"}

HangupInvoke ==
  /\ opsLeft > 0 /\ hangupReq = "none" /\ Has(calls)
  /\ opsLeft' = opsLeft - 1
  /\ hangupReq' = "sent"
  /\ \E r \in HangupReasons : hangupReason' = r
  /\ UNCHANGED <<regVars, swVars, flowVars, play, recording, bridgeOp, stopOp,
                 capOp, ttsVars, capVars, asrVars, sideVars>>

\* The switch processes channels.hangup.
SwitchHangup ==
  /\ hangupReq = "sent"
  /\ hangupReq' = "replied"
  /\ IF Alive(chan) THEN ChannelGone ELSE UNCHANGED swVars
  /\ UNCHANGED <<regVars, flowVars, opsLeft, hangupReason, play, recording,
                 bridgeOp, stopOp, capOp, ttsVars, capVars, asrVars, sideVars>>

\* channels.hangup settled (errors are swallowed): end the call.
HangupResolved ==
  /\ hangupReq = "replied"
  /\ hangupReq' = "none"
  /\ EndCall(calls, hangupReason)
  /\ UNCHANGED <<webhooks, swVars, flowVars, opsLeft, hangupReason, play,
                 recording, bridgeOp, stopOp, capOp, ttsVars, capVars, asrVars, sideVars>>

\* ------------------------------------------------------------ playMedia pieces
\* playMedia: a failed play request restores the saved state at once.
playRequestFailed(cs, prev) == updateState(cs, Restore(prev, "playing"), FALSE)
\* playMedia: PlaybackFinished restores only if the call is still playing.
playFinished(cs, prev) ==
  IF StateOf(cs) = "playing"
  THEN updateState(cs, Restore(prev, "playing"), FALSE) ELSE cs
\* playMedia: PlaybackFailed restores unconditionally.
playFailed(cs, prev) == updateState(cs, Restore(prev, "playing"), FALSE)

\* speak: the finally block restores only if the call is still speaking.
speakFinally(cs, prev) ==
  IF StateOf(cs) = "speaking"
  THEN updateState(cs, Restore(prev, "speaking"), FALSE) ELSE cs

\* ------------------------------------------------------------ speak
OpsAllowed == opsLeft > 0 /\ Has(calls)

\* speak(): save the state, enter "speaking", TtsManager.synthesize cancels
\* the registered controller, registers its own and sends the TTS request.
SpeakInvoke(s) ==
  /\ OpsAllowed
  /\ speak[s].pc = "idle"
  /\ \A j \in SpeakIds : j < s => speak[j].pc # "idle"
  /\ opsLeft' = opsLeft - 1
  /\ speak' = [speak EXCEPT ![s] = [pc |-> "synth", prev |-> StateOf(calls),
                                    playPrev |-> "none"]]
  /\ calls' = updateState(calls, "speaking", FALSE)
  /\ aborted' = cancelAborted(inFlight, aborted)
  /\ inFlight' = s
  /\ UNCHANGED <<cleanupTimers, cleanupPending, webhooks, endedEvents, swVars,
                 flowVars, hangupReq, hangupReason, play, recording, bridgeOp,
                 stopOp, capOp, playedAudio, capVars, asrVars, sideVars>>

\* speak's catch + finally: speak_error, restore, rethrow.
SpeakFail(s, cs) ==
  /\ calls' = speakFinally(cs, speak[s].prev)
  /\ speak' = [speak EXCEPT ![s].pc = "failed"]

\* uploadAndPlayFile falls back to a second playMedia when the first one
\* throws; a missing record makes that one throw as well.
SpeakFallback(s, cs) ==
  IF Has(cs)
  THEN /\ calls' = updateState(cs, "playing", FALSE)
       /\ speak' = [speak EXCEPT ![s].pc = "playReq2",
                                 ![s].playPrev = StateOf(cs)]
  ELSE SpeakFail(s, cs)

\* The TTS request settles.
SynthResponse(s) ==
  /\ speak[s].pc = "synth"
  /\ inFlight' = IF inFlight = s THEN 0 ELSE inFlight
  /\ \/ /\ ~FetchAbortedBy(aborted, s)
        /\ IF Has(calls)
           THEN /\ speak' = [speak EXCEPT ![s].pc = "upload"]
                /\ UNCHANGED calls
           ELSE SpeakFail(s, calls)
     \/ SpeakFail(s, calls)
  /\ UNCHANGED <<cleanupTimers, cleanupPending, webhooks, endedEvents, swVars,
                 flowVars, opVars, aborted, playedAudio, capVars, asrVars, sideVars>>

\* The sound upload settles: with any HTTP status playMedia(sound:) starts;
\* a network error goes to speak's catch.
UploadResponse(s) ==
  /\ speak[s].pc = "upload"
  /\ \/ IF Has(calls)
        THEN /\ calls' = updateState(calls, "playing", FALSE)
             /\ speak' = [speak EXCEPT ![s].pc = "playReq1",
                                       ![s].playPrev = StateOf(calls)]
        ELSE SpeakFail(s, calls)
     \/ SpeakFail(s, calls)
  /\ UNCHANGED <<cleanupTimers, cleanupPending, webhooks, endedEvents, swVars,
                 flowVars, opVars, inFlight, aborted, playedAudio, capVars,
                 asrVars, sideVars>>

\* Response to channels.play of speak s (first or fallback attempt).
SpeakPlayResponse(s) ==
  /\ speak[s].pc \in {"playReq1", "playReq2"}
  /\ \/ /\ Alive(chan)
        /\ swPlaybacks' = swPlaybacks \cup {SpeakTag(s)}
        /\ playedAudio' = playedAudio \cup {s}
        /\ speak' = [speak EXCEPT ![s].pc =
                        IF @ = "playReq1" THEN "playWait1" ELSE "playWait2"]
        /\ UNCHANGED calls
     \/ /\ IF speak[s].pc = "playReq1"
           THEN SpeakFallback(s, playRequestFailed(calls, speak[s].playPrev))
           ELSE SpeakFail(s, playRequestFailed(calls, speak[s].playPrev))
        /\ UNCHANGED <<swPlaybacks, playedAudio>>
  /\ UNCHANGED <<cleanupTimers, cleanupPending, webhooks, endedEvents, chan,
                 inStasis, evq, swRecording, swRes, flowVars, opVars, inFlight,
                 aborted, capVars, asrVars, sideVars>>

\* PlaybackFinished of speak s: playMedia resolves, speak finishes.
OnSpeakPlaybackFinished(s) ==
  /\ evq # <<>> /\ Head(evq) = Ev("PlaybackFinished", SpeakTag(s))
  /\ evq' = Tail(evq)
  /\ IF speak[s].pc \in {"playWait1", "playWait2"}
     THEN /\ calls' = speakFinally(playFinished(calls, speak[s].playPrev),
                                   speak[s].prev)
          /\ speak' = [speak EXCEPT ![s].pc = "done"]
     ELSE UNCHANGED <<calls, speak>>
  /\ UNCHANGED <<cleanupTimers, cleanupPending, webhooks, endedEvents, chan,
                 inStasis, swPlaybacks, swRecording, swRes, flowVars, opVars,
                 inFlight, aborted, playedAudio, capVars, asrVars, sideVars>>

\* PlaybackFailed of speak s: the first attempt falls back, the second fails.
OnSpeakPlaybackFailed(s) ==
  /\ evq # <<>> /\ Head(evq) = Ev("PlaybackFailed", SpeakTag(s))
  /\ evq' = Tail(evq)
  /\ CASE speak[s].pc = "playWait1" ->
            SpeakFallback(s, playFailed(calls, speak[s].playPrev))
       [] speak[s].pc = "playWait2" ->
            SpeakFail(s, playFailed(calls, speak[s].playPrev))
       [] OTHER -> UNCHANGED <<calls, speak>>
  /\ UNCHANGED <<cleanupTimers, cleanupPending, webhooks, endedEvents, chan,
                 inStasis, swPlaybacks, swRecording, swRes, flowVars, opVars,
                 inFlight, aborted, playedAudio, capVars, asrVars, sideVars>>

\* A playback on the call's channel fails on the switch.
SwitchPlaybackFails ==
  /\ \E t \in swPlaybacks \ {GreetTag} :
       /\ swPlaybacks' = swPlaybacks \ {t}
       /\ evq' = Append(evq, Ev("PlaybackFailed", t))
  /\ UNCHANGED <<regVars, chan, inStasis, swRecording, swRes, flowVars, opVars,
                 ttsVars, capVars, asrVars, sideVars>>

\* ------------------------------------------------------------ playMedia
PlayInvoke ==
  /\ OpsAllowed
  /\ play.pc = "idle"
  /\ opsLeft' = opsLeft - 1
  /\ play' = [pc |-> "req", prev |-> StateOf(calls)]
  /\ calls' = updateState(calls, "playing", FALSE)
  /\ UNCHANGED <<cleanupTimers, cleanupPending, webhooks, endedEvents, swVars,
                 flowVars, hangupReq, hangupReason, recording, bridgeOp, stopOp,
                 capOp, ttsVars, capVars, asrVars, sideVars>>

PlayResponse ==
  /\ play.pc = "req"
  /\ \/ /\ Alive(chan)
        /\ swPlaybacks' = swPlaybacks \cup {PlayTag}
        /\ play' = [play EXCEPT !.pc = "wait"]
        /\ UNCHANGED calls
     \/ /\ calls' = playRequestFailed(calls, play.prev)
        /\ play' = [play EXCEPT !.pc = "failed"]
        /\ UNCHANGED swPlaybacks
  /\ UNCHANGED <<cleanupTimers, cleanupPending, webhooks, endedEvents, chan,
                 inStasis, evq, swRecording, swRes, flowVars, opsLeft,
                 hangupReq, hangupReason, recording, bridgeOp, stopOp, capOp,
                 ttsVars, capVars, asrVars, sideVars>>

OnPlayFinished ==
  /\ evq # <<>> /\ Head(evq) = Ev("PlaybackFinished", PlayTag)
  /\ evq' = Tail(evq)
  /\ IF play.pc = "wait"
     THEN /\ calls' = playFinished(calls, play.prev)
          /\ play' = [play EXCEPT !.pc = "done"]
     ELSE UNCHANGED <<calls, play>>
  /\ UNCHANGED <<cleanupTimers, cleanupPending, webhooks, endedEvents, chan,
                 inStasis, swPlaybacks, swRecording, swRes, flowVars, opsLeft,
                 hangupReq, hangupReason, recording, bridgeOp, stopOp, capOp,
                 ttsVars, capVars, asrVars, sideVars>>

OnPlayFailed ==
  /\ evq # <<>> /\ Head(evq) = Ev("PlaybackFailed", PlayTag)
  /\ evq' = Tail(evq)
  /\ IF play.pc = "wait"
     THEN /\ calls' = playFailed(calls, play.prev)
          /\ play' = [play EXCEPT !.pc = "failed"]
     ELSE UNCHANGED <<calls, play>>
  /\ UNCHANGED <<cleanupTimers, cleanupPending, webhooks, endedEvents, chan,
                 inStasis, swPlaybacks, swRecording, swRes, flowVars, opsLeft,
                 hangupReq, hangupReason, recording, bridgeOp, stopOp, capOp,
                 ttsVars, capVars, asrVars, sideVars>>

\* ------------------------------------------------------------ startRecording
\* startRecording sends channels.record; "prev" remembers the state at
\* entry (the code keeps no such copy).
RecordInvoke ==
  /\ OpsAllowed
  /\ recording.pc = "idle"
  /\ opsLeft' = opsLeft - 1
  /\ recording' = [pc |-> "req", prev |-> StateOf(calls), finished |-> FALSE]
  /\ UNCHANGED <<regVars, swVars, flowVars, hangupReq, hangupReason, play,
                 bridgeOp, stopOp, capOp, ttsVars, capVars, asrVars, sideVars>>

RecordResponse ==
  /\ recording.pc = "req"
  /\ \/ /\ Alive(chan)
        /\ swRecording' = TRUE
        /\ recording' = [recording EXCEPT !.pc = "started"]
        /\ calls' = updateState(calls, "recording", FALSE)
     \/ /\ recording' = [recording EXCEPT !.pc = "failed"]
        /\ UNCHANGED <<calls, swRecording>>
  /\ UNCHANGED <<cleanupTimers, cleanupPending, webhooks, endedEvents, chan,
                 inStasis, evq, swPlaybacks, swRes, flowVars, opsLeft,
                 hangupReq, hangupReason, play, bridgeOp, stopOp, capOp,
                 ttsVars, capVars, asrVars, sideVars>>

\* The recording ends on the switch (maximum duration, silence, stop).
SwitchRecordingDone ==
  /\ swRecording
  /\ swRecording' = FALSE
  /\ evq' = Append(evq, Ev("RecordingFinished", NoTag))
  /\ UNCHANGED <<regVars, chan, inStasis, swPlaybacks, swRes, flowVars, opVars,
                 ttsVars, capVars, asrVars, sideVars>>

\* RecordingFinished handler: broadcasts call.recording_finished only.
OnRecordingFinished ==
  /\ evq # <<>> /\ Head(evq) = Ev("RecordingFinished", NoTag)
  /\ evq' = Tail(evq)
  /\ recording' = [recording EXCEPT !.finished = TRUE]
  /\ UNCHANGED <<regVars, chan, inStasis, swPlaybacks, swRecording, swRes,
                 flowVars, opsLeft, hangupReq, hangupReason, play, bridgeOp,
                 stopOp, capOp, ttsVars, capVars, asrVars, sideVars>>

\* ------------------------------------------------------------ bridges
\* addChannelToBridge / removeChannelFromBridge send their request.
BridgeInvoke ==
  /\ OpsAllowed
  /\ bridgeOp = "idle"
  /\ opsLeft' = opsLeft - 1
  /\ \E op \in {"addReq", "removeReq"} : bridgeOp' = op
  /\ UNCHANGED <<regVars, swVars, flowVars, hangupReq, hangupReason, play,
                 recording, stopOp, capOp, ttsVars, capVars, asrVars, sideVars>>

\* The request settles: on success setBridge / clearBridge.
BridgeResponse ==
  /\ bridgeOp \in {"addReq", "removeReq"}
  /\ bridgeOp' = "idle"
  /\ \/ /\ Alive(chan)
        /\ calls' = IF bridgeOp = "addReq" THEN setBridge(calls)
                    ELSE clearBridge(calls)
     \/ UNCHANGED calls
  /\ UNCHANGED <<cleanupTimers, cleanupPending, webhooks, endedEvents, swVars,
                 flowVars, opsLeft, hangupReq, hangupReason, play, recording,
                 stopOp, capOp, ttsVars, capVars, asrVars, sideVars>>

\* ------------------------------------------------------------ audio capture
CallKnown == flow \in {"timer", "answering", "greetReq", "greeting", "beepReq",
                       "inDone", "noAnswer", "originating", "outDone",
                       "origFailed"}

\* The inbound flow has not yet reached its automatic capture start.
AutoStartAhead == flow \in {"timer", "answering", "greetReq", "greeting",
                            "beepReq"}

\* startAudioCapture invoked through the REST surface.
StartCaptureInvoke ==
  /\ opsLeft > 0 /\ CallKnown
  /\ FreshCount > (IF AutoStartAhead THEN 1 ELSE 0)
  /\ opsLeft' = opsLeft - 1
  /\ capOp' = CASE StartOutcome(calls) = "not-found" -> "not-found"
                [] StartOutcome(calls) = "exists" -> "failed"
                [] OTHER -> "pending"
  /\ StartCapture(calls, "api")
  /\ UNCHANGED <<regVars, swVars, flowVars, hangupReq, hangupReason, play,
                 recording, bridgeOp, stopOp, ttsVars, stasisEnd, asrVars, sideVars>>

\* What the caller of startCapture sees when instance k fails.
StartFailed(k) ==
  /\ captures' = 0
  /\ capOp' = IF cap[k].starter = "api" THEN "failed" ELSE capOp

\* AudioCapture.start() failed on instance k: cleanup() closes the socket
\* and sends a release for every handle held; with nothing to release the
\* error reaches the caller at once.
StartCleanup(k) ==
  IF swRes[k] \ {"ws"} = {} /\ cap[k].pc = "snoopReq"
  THEN /\ cap' = [cap EXCEPT ![k].pc = "failed", ![k].raced = Raced(k)]
       /\ StartFailed(k)
       /\ UNCHANGED swRes
  ELSE /\ cap' = [cap EXCEPT ![k].pc = "failing", ![k].raced = Raced(k)]
       /\ swRes' = [swRes EXCEPT ![k] = @ \ {"ws"}]
       /\ UNCHANGED <<captures, capOp>>

CapStepFrame ==
  UNCHANGED <<regVars, chan, inStasis, evq, swPlaybacks, swRecording, flowVars,
              opsLeft, hangupReq, hangupReason, play, recording, bridgeOp,
              stopOp, ttsVars, stasisEnd, asrVars, sideVars>>

\* snoopChannelWithId settles.
CapSnoopResponse(k) ==
  /\ cap[k].pc = "snoopReq"
  /\ \/ /\ Alive(chan)
        /\ swRes' = [swRes EXCEPT ![k] = @ \cup {"snoop"}]
        /\ cap' = [cap EXCEPT ![k].pc = "extReq"]
        /\ UNCHANGED <<captures, capOp>>
     \/ StartCleanup(k)
  /\ CapStepFrame

\* externalMedia settles.
CapExtResponse(k) ==
  /\ cap[k].pc = "extReq"
  /\ \/ /\ swRes' = [swRes EXCEPT ![k] = @ \cup {"ext"}]
        /\ cap' = [cap EXCEPT ![k].pc = "waitStasis"]
        /\ UNCHANGED <<captures, capOp>>
     \/ StartCleanup(k)
  /\ CapStepFrame

\* waitForStasisStart: the external-media channel enters the application,
\* or the wait times out.
CapStasisStart(k) ==
  /\ cap[k].pc = "waitStasis"
  /\ \/ /\ cap' = [cap EXCEPT ![k].pc = "bridgeReq"]
        /\ UNCHANGED <<swRes, captures, capOp>>
     \/ StartCleanup(k)
  /\ CapStepFrame

\* bridges.create settles.
CapBridgeResponse(k) ==
  /\ cap[k].pc = "bridgeReq"
  /\ \/ /\ swRes' = [swRes EXCEPT ![k] = @ \cup {"bridge"}]
        /\ cap' = [cap EXCEPT ![k].pc = "addReq"]
        /\ UNCHANGED <<captures, capOp>>
     \/ StartCleanup(k)
  /\ CapStepFrame

\* bridges.addChannel([snoop, externalMedia]) settles; on success the
\* media socket starts connecting.
CapAddResponse(k) ==
  /\ cap[k].pc = "addReq"
  /\ \/ /\ "snoop" \in swRes[k]
        /\ swRes' = [swRes EXCEPT ![k] = @ \cup {"ws"}]
        /\ cap' = [cap EXCEPT ![k].pc = "wsConnect"]
        /\ UNCHANGED <<captures, capOp>>
     \/ StartCleanup(k)
  /\ CapStepFrame

\* The media socket opens: the capture is active, "started" is emitted
\* (capture.started handler starts the ASR session) and startAudioCapture
\* writes the capture info into the record; or the connect fails.
CapWsResult(k) ==
  /\ cap[k].pc = "wsConnect"
  /\ \/ /\ cap' = [cap EXCEPT ![k].pc = "active", ![k].active = TRUE,
                               ![k].raced = Raced(k)]
        /\ asr' = startSessionAsr(clients, asr, k)
        /\ clients' = startSessionClients(clients, k)
        /\ calls' = IF Has(calls)
                    THEN [calls EXCEPT ![Cid].audioCapture = "enabled"]
                    ELSE calls
        /\ capOp' = IF cap[k].starter = "api" THEN "ok" ELSE capOp
        /\ UNCHANGED <<swRes, captures, wireVars, sideVars>>
     \/ /\ StartCleanup(k)
        /\ UNCHANGED <<calls, asrVars, sideVars>>
  /\ UNCHANGED <<cleanupTimers, cleanupPending, webhooks, endedEvents, chan,
                 inStasis, evq, swPlaybacks, swRecording, flowVars, opsLeft,
                 hangupReq, hangupReason, play, recording, bridgeOp, stopOp,
                 ttsVars, stasisEnd>>

\* The releases sent by a failed start() have settled: the error reaches
\* AudioCaptureManager.startCapture, which forgets the capture.
CapFailSettled(k) ==
  /\ cap[k].pc = "failing"
  /\ cap' = [cap EXCEPT ![k].pc = "failed"]
  /\ swRes' = [swRes EXCEPT ![k] = {}]
  /\ StartFailed(k)
  /\ CapStepFrame

\* stopAudioCapture invoked through the REST surface.
StopContinuation(cs) ==
  IF Has(cs) /\ cs[Cid].audioCapture # "none"
  THEN [cs EXCEPT ![Cid].audioCapture = "disabled"] ELSE cs

StopCaptureInvoke ==
  /\ OpsAllowed
  /\ stopOp.pc = "idle"
  /\ opsLeft' = opsLeft - 1
  /\ IF captures = 0
     THEN /\ calls' = StopContinuation(calls)
          /\ UNCHANGED <<stopOp, swRes, captures, cap, asrVars, sideVars>>
     ELSE /\ StopBegin(captures)
          /\ IF StopMode(captures) = "wait"
             THEN /\ stopOp' = [pc |-> "waiting", target |-> captures]
                  /\ UNCHANGED calls
             ELSE /\ calls' = StopContinuation(calls)
                  /\ UNCHANGED stopOp
  /\ UNCHANGED <<cleanupTimers, cleanupPending, webhooks, endedEvents, chan,
                 inStasis, evq, swPlaybacks, swRecording, flowVars, hangupReq,
                 hangupReason, play, recording, bridgeOp, capOp, ttsVars,
                 stasisEnd>>

StopCaptureSettled ==
  /\ stopOp.pc = "waiting"
  /\ StopSettle(stopOp.target)
  /\ stopOp' = [pc |-> "idle", target |-> 0]
  /\ calls' = StopContinuation(calls)
  /\ UNCHANGED <<cleanupTimers, cleanupPending, webhooks, endedEvents, chan,
                 inStasis, evq, swPlaybacks, swRecording, flowVars, opsLeft,
                 hangupReq, hangupReason, play, recording, bridgeOp, capOp,
                 ttsVars, stasisEnd>>

\* ------------------------------------------------------------ ASR session
\* The ASR socket of client k opens or fails to connect.  A client that
\* close() already dropped keeps its socket: nothing refers to it any more.
AsrConnectResult(k) ==
  /\ asr[k].ws \in {"connecting", "orphanConnecting"}
  /\ \/ /\ asr' = [asr EXCEPT ![k].ws =
                      IF @ = "connecting" THEN "open" ELSE "orphanOpen"]
        /\ UNCHANGED clients
     \/ /\ asr' = [asr EXCEPT ![k].ws = "closed"]
        /\ clients' = IF asr[k].ws = "connecting" THEN 0 ELSE clients
  /\ UNCHANGED <<regVars, swVars, flowVars, opVars, ttsVars, capVars, wireVars, sideVars>>

\* flushAndWait of close() resolves (final result, deadline or socket
\* close): the socket is closed and endSession forgets the client.
AsrFlushDone(k) ==
  /\ asr[k].ws = "flushing"
  /\ asr' = [asr EXCEPT ![k].ws = "closed"]
  /\ clients' = 0
  /\ UNCHANGED <<regVars, swVars, flowVars, opVars, ttsVars, capVars, wireVars, sideVars>>

\* ------------------------------------------------------------ AsrClient, step by step
\* One AsrClient and its WebSocket, from connect() to the end of close().
\* The socket is a pair of FIFO links; the client's WebSocket keeps
\* delivering the frames that arrive between its close() and the end of
\* the closing handshake.  The server closes the socket on its own only
\* once close() has begun: reconnection is not followed here.
MainVars == <<regVars, swVars, flowVars, opVars, ttsVars, capVars, clients, asr,
             sideVars>>

Flush == [e |-> "flush"]
WsClose == [e |-> "wsClose"]
Disconnected == [e |-> "disconnected"]
CloseFrame == [k |-> "close"]

\* emit("transcription", ...) of message m; w tells whether close() was
\* waiting in flushAndWait when m arrived.
emitTranscription(lg, m, w) ==
  Append(lg, [e |-> "transcription", id |-> m.id, final |-> m.final,
              waiting |-> w])

\* close() after flushAndWait: this.ws.close().
closeSocket(lg) == Append(lg, WsClose)

\* A close() that closes the socket first and emits the transcription of
\* the flush response afterwards.
flushResolvedCloseFirst(lg, m) == emitTranscription(closeSocket(lg), m, TRUE)

\* flushAndWait's onMessage on an is_final message, then close() resumes:
\* the transcription is emitted, then the socket is closed.
flushResolved(lg, m) == closeSocket(emitTranscription(lg, m, TRUE))

\* The "message" handler connect() installed: emit the transcription.
mainHandler(lg, m) == emitTranscription(lg, m, closePc = "waiting")

\* The socket opens: "open" handler, connect() resolves.
AsrWsOpen ==
  /\ asrWs = "CONNECTING"
  /\ asrWs' = "OPEN"
  /\ srvOpen' = TRUE
  /\ UNCHANGED <<MainVars, asrWsRef, asrClosed, closePc, toServer, toClient,
                 frames, msgs, log>>

\* sendAudioFrame: only on an open socket the client still refers to.
sendAudioFrame ==
  /\ frames < MaxFrames
  /\ asrWsRef /\ asrWs = "OPEN"
  /\ frames' = frames + 1
  /\ toServer' = Append(toServer, "audio")
  /\ UNCHANGED <<MainVars, asrWs, asrWsRef, asrClosed, closePc, toClient,
                 srvOpen, msgs, log>>

\* AsrClient.close() up to its await: on an open socket flushAndWait
\* installs its listeners and sends the flush; otherwise the reference to
\* the socket is dropped.
AsrClose ==
  /\ closePc = "idle"
  /\ asrClosed' = TRUE
  /\ IF asrWsRef /\ asrWs = "OPEN"
     THEN /\ closePc' = "waiting"
          /\ toServer' = Append(toServer, "flush")
          /\ log' = Append(log, Flush)
          /\ UNCHANGED asrWsRef
     ELSE /\ closePc' = "done"
          /\ asrWsRef' = FALSE
          /\ UNCHANGED <<toServer, log>>
  /\ UNCHANGED <<MainVars, asrWs, toClient, srvOpen, frames, msgs>>

\* close() resumes after flushAndWait: ws.close() starts the closing
\* handshake (nothing is sent on a socket that is already closed).
CloseResumes ==
  /\ closePc' = "done"
  /\ asrWsRef' = FALSE
  /\ asrWs' = IF asrWs = "OPEN" THEN "CLOSING" ELSE asrWs
  /\ toServer' = IF asrWs = "OPEN" THEN Append(toServer, "close") ELSE toServer

\* The 2 s deadline of flushAndWait expires.
FlushTimeout ==
  /\ closePc = "waiting"
  /\ CloseResumes
  /\ log' = closeSocket(log)
  /\ UNCHANGED <<MainVars, asrClosed, toClient, srvOpen, frames, msgs>>

\* A transcription arrives: the main handler emits it; flushAndWait's
\* listener, when installed, emits an is_final one again and ends the wait.
ClientMessage ==
  /\ toClient # <<>> /\ Head(toClient).k = "msg"
  /\ asrWs \in {"OPEN", "CLOSING"}
  /\ toClient' = Tail(toClient)
  /\ LET m == Head(toClient)
     IN IF closePc = "waiting" /\ m.final
        THEN /\ log' = flushResolved(mainHandler(log, m), m)
             /\ CloseResumes
        ELSE /\ log' = mainHandler(log, m)
             /\ UNCHANGED <<asrWs, asrWsRef, closePc, toServer>>
  /\ UNCHANGED <<MainVars, asrClosed, srvOpen, frames, msgs>>

\* The socket closes at the client: "close" handler emits disconnected;
\* flushAndWait's onClose, when installed, ends the wait.
ClientClosed ==
  /\ toClient # <<>> /\ Head(toClient).k = "close"
  /\ asrWs \in {"OPEN", "CLOSING"}
  /\ toClient' = Tail(toClient)
  /\ IF closePc = "waiting"
     THEN /\ log' = closeSocket(Append(log, Disconnected))
          /\ closePc' = "done"
          /\ asrWsRef' = FALSE
     ELSE /\ log' = Append(log, Disconnected)
          /\ UNCHANGED <<closePc, asrWsRef>>
  /\ asrWs' = "CLOSED"
  /\ UNCHANGED <<MainVars, asrClosed, toServer, srvOpen, frames, msgs>>

\* The server has the client's flush.
SrvFlushed == Flush \in Range(log) /\ "flush" \notin Range(toServer)

\* The ASR server sends a transcription (partial or final).
SrvTranscribe ==
  /\ srvOpen /\ Len(msgs) < MaxMsgs
  /\ \E f \in BOOLEAN :
       /\ msgs' = Append(msgs, [final |-> f,
                                afterFlush |-> SrvFlushed,
                                beforeClose |-> WsClose \notin Range(log)])
       /\ toClient' = Append(toClient, [k |-> "msg", id |-> Len(msgs) + 1,
                                       final |-> f])
  /\ UNCHANGED <<MainVars, asrWs, asrWsRef, asrClosed, closePc, toServer,
                 srvOpen, frames, log>>

\* The server takes the next frame: audio and flush are consumed, a close
\* frame is answered and ends the server's side.
SrvReceive ==
  /\ toServer # <<>>
  /\ toServer' = Tail(toServer)
  /\ IF Head(toServer) = "close" /\ srvOpen
     THEN /\ srvOpen' = FALSE
          /\ toClient' = Append(toClient, CloseFrame)
     ELSE UNCHANGED <<srvOpen, toClient>>
  /\ UNCHANGED <<MainVars, asrWs, asrWsRef, asrClosed, closePc, frames, msgs,
                 log>>

\* The server ends the session on its own while close() is under way.
SrvClose ==
  /\ srvOpen /\ asrClosed
  /\ srvOpen' = FALSE
  /\ toClient' = Append(toClient, CloseFrame)
  /\ UNCHANGED <<MainVars, asrWs, asrWsRef, asrClosed, closePc, toServer,
                 frames, msgs, log>>

AsrNext ==
  \/ AsrWsOpen
  \/ sendAudioFrame
  \/ AsrClose
  \/ FlushTimeout
  \/ ClientMessage
  \/ ClientClosed
  \/ SrvTranscribe
  \/ SrvReceive
  \/ SrvClose

\* ------------------------------------------------------------ AudioPlayback
\* One AudioPlayback whose start() has succeeded (active, media socket
\* open), its streamAudio scheduler and stop() / cancel().
OtherVars == <<regVars, swVars, flowVars, opVars, ttsVars, capVars, asrVars,
               xfer, miscVars, speakErr, origAllowed, stoppedEvents>>

BufLevels == {"zero", "low", "mid", "high"}
\* audioWs && audioWs.readyState === WebSocket.OPEN
pbOpen == pbWs.ref /\ pbWs.state = "OPEN"
\* bufferedAmount > WS_BACKPRESSURE_HIGH
AboveHigh(b) == b = "high"
\* bufferedAmount <= WS_BACKPRESSURE_LOW
AtMostLow(b) == b \in {"zero", "low"}

\* scheduleNext: resolve on cancel; after the last chunk wait for the
\* drain; otherwise send the chunk (resolve when the socket is gone, reject
\* when send throws), then wait on backpressure or arm the frame timer.
scheduleNext(cancelled, chunk) ==
  IF cancelled
  THEN /\ pbPc' = "resolved" /\ pbStreaming' = FALSE /\ pbTimer' = FALSE
       /\ pbChunk' = chunk
       /\ UNCHANGED <<pbBuf, pbLate>>
  ELSE IF chunk >= MaxChunks
  THEN /\ pbPc' = "drain" /\ pbStreaming' = TRUE /\ pbTimer' = FALSE
       /\ pbChunk' = chunk
       /\ UNCHANGED <<pbBuf, pbLate>>
  ELSE IF pbOpen
  THEN \/ \E b \in BufLevels :
            /\ pbBuf' = b
            /\ pbChunk' = chunk + 1
            /\ pbLate' = (pbLate \/ pbStop # "idle")
            /\ pbStreaming' = TRUE
            /\ IF AboveHigh(b)
               THEN pbPc' = "backpressure" /\ pbTimer' = FALSE
               ELSE pbPc' = "frameWait" /\ pbTimer' = TRUE
       \/ /\ pbPc' = "rejected" /\ pbStreaming' = FALSE /\ pbTimer' = FALSE
          /\ pbChunk' = chunk
          /\ UNCHANGED <<pbBuf, pbLate>>
  ELSE /\ pbPc' = "resolved" /\ pbStreaming' = FALSE /\ pbTimer' = FALSE
       /\ pbChunk' = chunk
       /\ UNCHANGED <<pbBuf, pbLate>>

\* streamAudio on an active playback with an open socket: the first chunk
\* is sent at once.
streamAudio ==
  /\ pbPc \in {"idle", "resolved", "rejected"}
  /\ pbActive /\ pbOpen
  /\ pbCancelled' = FALSE
  /\ scheduleNext(FALSE, 0)
  /\ UNCHANGED <<OtherVars, pbActive, pbWs, pbStop>>

\* The timer stored in streamTimer fires.
FrameTimerFires ==
  /\ pbPc = "frameWait" /\ pbTimer
  /\ scheduleNext(pbCancelled, pbChunk)
  /\ UNCHANGED <<OtherVars, pbActive, pbWs, pbCancelled, pbStop>>

\* waitForBackpressure's poll finds the wait over (cancelled, socket gone
\* or buffer at the low-water mark): scheduleNext runs.
BackpressurePoll ==
  /\ pbPc = "backpressure"
  /\ pbCancelled \/ ~pbOpen \/ AtMostLow(pbBuf)
  /\ scheduleNext(pbCancelled, pbChunk)
  /\ UNCHANGED <<OtherVars, pbActive, pbWs, pbCancelled, pbStop>>

\* waitForDrain's poll finds the wait over (socket gone, buffer empty or
\* the 500 ms deadline reached): the promise resolves.
DrainPoll ==
  /\ pbPc = "drain"
  /\ pbPc' = "resolved"
  /\ pbStreaming' = FALSE
  /\ UNCHANGED <<OtherVars, pbActive, pbWs, pbBuf, pbCancelled, pbTimer,
                 pbChunk, pbStop, pbLate>>

\* The socket hands buffered bytes to the network.
WsDrains ==
  /\ pbWs.state = "OPEN" /\ pbBuf # "zero"
  /\ pbBuf' = CASE pbBuf = "high" -> "mid"
                [] pbBuf = "mid" -> "low"
                [] OTHER -> "zero"
  /\ UNCHANGED <<OtherVars, pbActive, pbWs, pbCancelled, pbStreaming, pbTimer,
                 pbPc, pbChunk, pbStop, pbLate>>

\* stop() / cancel() up to the await in cleanup(): set cancelled, clear the
\* stored timer, close the socket and drop the reference to it.
stopPlayback ==
  /\ pbActive /\ pbStop = "idle"
  /\ pbCancelled' = TRUE
  /\ pbTimer' = FALSE
  /\ pbWs' = [state |-> IF pbWs.state = "OPEN" THEN "CLOSING" ELSE pbWs.state,
              ref |-> FALSE]
  /\ pbStop' = "cleanup"
  /\ UNCHANGED <<OtherVars, pbActive, pbBuf, pbStreaming, pbPc, pbChunk,
                 pbLate>>

\* The releases of cleanup() have settled: stop() finishes.
stopPlaybackSettled ==
  /\ pbStop = "cleanup"
  /\ pbStop' = "done"
  /\ pbActive' = FALSE
  /\ pbStreaming' = FALSE
  /\ UNCHANGED <<OtherVars, pbWs, pbBuf, pbCancelled, pbTimer, pbPc, pbChunk,
                 pbLate>>

\* The media socket closes (closing handshake done, or the far end left).
PlaybackWsClosed ==
  /\ pbWs.state \in {"OPEN", "CLOSING"}
  /\ pbWs' = [pbWs EXCEPT !.state = "CLOSED"]
  /\ UNCHANGED <<OtherVars, pbActive, pbBuf, pbCancelled, pbStreaming, pbTimer,
                 pbPc, pbChunk, pbStop, pbLate>>

PlaybackNext ==
  \/ streamAudio
  \/ FrameTimerFires
  \/ BackpressurePoll
  \/ DrainPoll
  \/ WsDrains
  \/ stopPlayback
  \/ stopPlaybackSettled
  \/ PlaybackWsClosed

\* ------------------------------------------------------------ AudioPlayback.start
\* Everything but the playback session being started.
PbsRest == <<regVars, swVars, flowVars, opVars, ttsVars, capVars, asrVars,
             pbVars, slinVars, xfer, speakErr, origAllowed, stoppedEvents, td, stm, rc,
            pm,
            intl,
            ac>>

\* AudioPlayback.cleanup() on session x: the socket is closed at once, a
\* release is sent for every handle held and the handles are forgotten.
pbCleanupBegin(x) ==
  [x EXCEPT !.pc = "failing", !.held = {}, !.res = @ \ {"ws"},
            !.rel = x.held \ {"ws"}]

\* The releases have settled: start() rethrows and startPlayback deletes
\* the manager entry.
pbStartThrows(x) ==
  [x EXCEPT !.pc = "failed", !.res = @ \ x.rel, !.rel = {}, !.entry = FALSE,
            !.err = TRUE]

\* catch of start(): cleanup(), then rethrow; with nothing to release the
\* error reaches the caller without waiting for the switch.
pbStartFails(x) ==
  IF x.held \ {"ws"} = {}
  THEN pbStartThrows(pbCleanupBegin(x))
  ELSE pbCleanupBegin(x)

\* startPlayback: a new AudioPlayback is registered and start() sends the
\* externalMedia request.
PbStartInvoke ==
  /\ pbs.pc = "idle"
  /\ pbs' = [pbs EXCEPT !.pc = "extReq", !.entry = TRUE]
  /\ UNCHANGED PbsRest

\* externalMedia settles in time: the channel exists and the media socket
\* starts connecting; or the request is rejected.
PbExtResponse ==
  /\ pbs.pc = "extReq"
  /\ \/ pbs' = [pbs EXCEPT !.pc = "wsConnect", !.res = @ \cup {"ext"},
                            !.held = @ \cup {"ext", "ws"}]
     \/ pbs' = pbStartFails(pbs)
  /\ UNCHANGED PbsRest

\* connectWebSocket settles: open, or error / 5 s timeout.
PbWsResult ==
  /\ pbs.pc = "wsConnect"
  /\ \/ pbs' = [pbs EXCEPT !.pc = "bridgeReq", !.res = @ \cup {"ws"}]
     \/ pbs' = pbStartFails(pbs)
  /\ UNCHANGED PbsRest

\* bridges.create settles in time.
PbBridgeResponse ==
  /\ pbs.pc = "bridgeReq"
  /\ \/ pbs' = [pbs EXCEPT !.pc = "addReq", !.res = @ \cup {"bridge"},
                            !.held = @ \cup {"bridge"}]
     \/ pbs' = pbStartFails(pbs)
  /\ UNCHANGED PbsRest

\* bridges.addChannel settles in time: the session is active.
PbAddResponse ==
  /\ pbs.pc = "addReq"
  /\ \/ pbs' = [pbs EXCEPT !.pc = "active"]
     \/ pbs' = pbStartFails(pbs)
  /\ UNCHANGED PbsRest

\* withTimeout: the timer of the pending setup request fires first; the
\* request itself stays pending on the switch.
PbSetupTimeout ==
  /\ pbs.pc \in {"extReq", "bridgeReq", "addReq"}
  /\ pbs' = pbStartFails([pbs EXCEPT !.late = @ \cup
               {CASE pbs.pc = "extReq" -> "ext"
                  [] pbs.pc = "bridgeReq" -> "bridge"
                  [] OTHER -> "add"}])
  /\ UNCHANGED PbsRest

\* A request that had timed out settles on the switch: the resource is
\* created after all (its promise has no listener left), or the request is
\* rejected.
PbLateSettles ==
  /\ \E r \in pbs.late :
       \/ pbs' = [pbs EXCEPT !.late = @ \ {r},
                             !.res = IF r = "add" THEN @ ELSE @ \cup {r}]
       \/ pbs' = [pbs EXCEPT !.late = @ \ {r}]
  /\ UNCHANGED PbsRest

\* The releases sent by cleanup() have settled.
PbCleanupSettled ==
  /\ pbs.pc = "failing"
  /\ pbs' = pbStartThrows(pbs)
  /\ UNCHANGED PbsRest

PbStartNext ==
  \/ PbStartInvoke
  \/ PbExtResponse
  \/ PbWsResult
  \/ PbBridgeResponse
  \/ PbAddResponse
  \/ PbSetupTimeout
  \/ PbLateSettles
  \/ PbCleanupSettled

\* ------------------------------------------------------------ AudioCapture teardown
\* Everything but the capture being torn down.
TdRest == <<regVars, swVars, flowVars, opVars, ttsVars, capVars, asrVars,
            pbVars, slinVars, xfer, speakErr, origAllowed, stoppedEvents, pbs, stm, rc,
            pm,
            intl,
            ac>>

CaptureHandles == {"ws", "bridge", "snoop", "ext"}

\* start() has succeeded: the capture is active and holds its handles (no
\* media socket when no socket URL is configured).
TdStarted ==
  /\ ~td.active /\ td.had = {}
  /\ \E h \in {CaptureHandles, CaptureHandles \ {"ws"}} :
       td' = [td EXCEPT !.active = TRUE, !.held = h, !.had = h]
  /\ UNCHANGED TdRest

\* stop(): returns at once when the capture is not active; otherwise
\* cleanup() closes the socket (an exception of close() is caught), sends
\* a release for every other handle held, forgets the handles and awaits
\* the releases it sent.  With none sent the await resumes at once:
\* active = false, "stopped" is emitted and stop() returns.
stopCall(x) ==
  IF ~x.active
  THEN [x EXCEPT !.calls = @ + 1, !.returned = @ + 1,
                 !.early = @ \/ x.pending # {}]
  ELSE IF x.held \ {"ws"} = {}
  THEN [x EXCEPT !.calls = @ + 1, !.returned = @ + 1, !.active = FALSE,
                 !.held = {}, !.attempted = @ \cup x.held,
                 !.early = @ \/ x.pending # {}]
  ELSE [x EXCEPT !.calls = @ + 1, !.held = {}, !.attempted = @ \cup x.held,
                 !.pending = x.held \ {"ws"}, !.waiting = TRUE]

TdStop ==
  /\ td.calls < MaxStops
  /\ td' = stopCall(td)
  /\ UNCHANGED TdRest

\* A release settles; its rejection is logged by its catch handler.
TdReleaseSettles ==
  /\ \E r \in td.pending, ok \in BOOLEAN :
       td' = [td EXCEPT !.pending = @ \ {r},
                        !.failed = IF ok THEN @ ELSE @ \cup {r}]
  /\ UNCHANGED TdRest

\* Promise.allSettled has resolved: active = false, "stopped", return.
TdStopResumes ==
  /\ td.waiting /\ td.pending = {}
  /\ td' = [td EXCEPT !.waiting = FALSE, !.active = FALSE,
                      !.returned = @ + 1]
  /\ UNCHANGED TdRest

TeardownNext ==
  \/ TdStarted
  \/ TdStop
  \/ TdReleaseSettles
  \/ TdStopResumes

\* ------------------------------------------------------------ streamAudio against the clock
\* Everything but the timed stream.
StRest == <<regVars, swVars, flowVars, opVars, ttsVars, capVars, asrVars,
            pbVars, slinVars, xfer, speakErr, origAllowed, stoppedEvents, pbs,
            td, rc,
            pm,
            intl,
            ac>>

chunkMs == 20
PollMs == 5
WS_DRAIN_TIMEOUT_MS == 500
WS_BACKPRESSURE_HIGH == 65536
WS_BACKPRESSURE_LOW == 32768

Max(a, b) == IF a >= b THEN a ELSE b

\* bufferedAmount values followed: empty, around the low-water mark and
\* around the high-water mark.
BufValues == {0, WS_BACKPRESSURE_LOW - 1, WS_BACKPRESSURE_LOW,
              WS_BACKPRESSURE_LOW + 1, WS_BACKPRESSURE_HIGH,
              WS_BACKPRESSURE_HIGH + 1}

stOpen(x) == x.open

\* waitForDrain on x: resolve when the socket is gone, the buffer is empty
\* or the deadline dl is reached; otherwise poll again in 5 ms.
drainCheck(x, dl) ==
  IF ~stOpen(x) \/ x.buf = 0 \/ x.now >= dl
  THEN [x EXCEPT !.pc = "resolved", !.dl = dl]
  ELSE [x EXCEPT !.pc = "drain", !.dl = dl, !.due = x.now + PollMs]

\* scheduleNext after the chunk has been sent and the buffer has grown to
\* b: wait on backpressure (its first check runs at once and, the buffer
\* being above the high-water mark, arms the 5 ms poll) or arm the frame
\* timer with delay max(0, startTime + chunkIndex * chunkMs - now).
afterSend(x, b) ==
  LET y == [x EXCEPT !.buf = b, !.idx = x.idx + 1,
                     !.early = @ \/ x.now < x.start + x.idx * chunkMs,
                     !.resumed = @ \/ x.pc = "backpressure"]
  IN  IF b > WS_BACKPRESSURE_HIGH
      THEN [y EXCEPT !.pc = "backpressure", !.due = y.now + PollMs]
      ELSE [y EXCEPT !.pc = "frameWait",
                     !.due = y.now + Max(0, y.start + y.idx * chunkMs - y.now)]

\* scheduleNext on x (the stream is not cancelled): after the last chunk
\* wait for the drain; with the socket gone resolve; otherwise send.
StScheduleNext(x) ==
  IF x.idx >= MaxChunks
  THEN stm' = drainCheck(x, x.now + WS_DRAIN_TIMEOUT_MS)
  ELSE IF ~stOpen(x)
  THEN stm' = [x EXCEPT !.pc = "resolved"]
  ELSE \E b \in {v \in BufValues : v > x.buf} :
         stm' = afterSend(x, b)

\* streamAudio: startTime = Date.now(), the first chunk goes out at once.
StStreamAudio ==
  /\ stm.pc = "idle" /\ stOpen(stm)
  /\ StScheduleNext([stm EXCEPT !.start = stm.now, !.idx = 0])
  /\ UNCHANGED StRest

\* The frame timer fires: at its due time or later.
StFrameTimerFires ==
  /\ stm.pc = "frameWait" /\ stm.now >= stm.due
  /\ StScheduleNext(stm)
  /\ UNCHANGED StRest

\* A waitForBackpressure that ends as soon as the buffer is no longer
\* above the high-water mark.
backpressureOverAtHigh(x) == ~stOpen(x) \/ x.buf <= WS_BACKPRESSURE_HIGH

\* waitForBackpressure's check: the wait is over when the socket is gone
\* or bufferedAmount <= low-water mark.
backpressureOver(x) == ~stOpen(x) \/ x.buf <= WS_BACKPRESSURE_LOW

\* The poll timer of waitForBackpressure fires: when the wait is over
\* scheduleNext runs at once; otherwise the poll is armed again.
StBackpressurePoll ==
  /\ stm.pc = "backpressure" /\ stm.now >= stm.due
  /\ IF backpressureOver(stm)
     THEN StScheduleNext(stm)
     ELSE stm' = [stm EXCEPT !.due = stm.now + PollMs]
  /\ UNCHANGED StRest

\* The poll timer of waitForDrain fires.
StDrainPoll ==
  /\ stm.pc = "drain" /\ stm.now >= stm.due
  /\ stm' = drainCheck(stm, stm.dl)
  /\ UNCHANGED StRest

TimerArmed(x) ==
  x.pc \in {"frameWait", "backpressure", "drain", "interval", "lastDelay"}

\* The socket hands buffered bytes to the network.
StWsDrains ==
  /\ stOpen(stm) /\ stm.pc # "idle"
  /\ \E b \in {v \in BufValues : v < stm.buf} : stm' = [stm EXCEPT !.buf = b]
  /\ UNCHANGED StRest

\* The media socket closes.
StWsClosed ==
  /\ stOpen(stm) /\ TimerArmed(stm)
  /\ stm' = [stm EXCEPT !.open = FALSE]
  /\ UNCHANGED StRest

\* Time passes while a timer of the stream is armed; the timer fires at
\* most MaxLateMs after it is due.
StTick ==
  /\ stm.now + PollMs <= MaxTimeMs
  /\ TimerArmed(stm) /\ stm.now < stm.due + MaxLateMs
  /\ stm' = [stm EXCEPT !.now = stm.now + PollMs]
  /\ UNCHANGED StRest

\* streamAudio paced by setInterval (audio-playback.ts).  sendChunk on x:
\* once every chunk is out the interval is cleared and the promise
\* resolves one chunk period later (dl notes the time 500 ms after that
\* point; this version reads no bufferedAmount); with the socket gone it
\* resolves at once; otherwise the chunk is sent.
sendChunk(x) ==
  IF x.idx >= MaxChunks
  THEN stm' = [x EXCEPT !.pc = "lastDelay", !.due = x.now + chunkMs,
                        !.dl = x.now + WS_DRAIN_TIMEOUT_MS]
  ELSE IF ~stOpen(x)
  THEN stm' = [x EXCEPT !.pc = "resolved"]
  ELSE \E b \in {v \in BufValues : v > x.buf \/ v = x.buf} :
         stm' = [x EXCEPT !.pc = "interval", !.buf = b, !.idx = x.idx + 1,
                          !.due = x.now + chunkMs,
                          !.early = @ \/ x.now < x.start + x.idx * chunkMs]

\* streamAudio: the first chunk at once, then setInterval(sendChunk, 20).
IvStreamAudio ==
  /\ stm.pc = "idle" /\ stOpen(stm)
  /\ sendChunk([stm EXCEPT !.start = stm.now, !.idx = 0])
  /\ UNCHANGED StRest

\* The interval timer fires.
IvTimerFires ==
  /\ stm.pc = "interval" /\ stm.now >= stm.due
  /\ sendChunk(stm)
  /\ UNCHANGED StRest

\* The timeout armed after the last chunk fires: resolve.
IvLastDelayOver ==
  /\ stm.pc = "lastDelay" /\ stm.now >= stm.due
  /\ stm' = [stm EXCEPT !.pc = "resolved"]
  /\ UNCHANGED StRest

StreamIntervalNext ==
  \/ IvStreamAudio
  \/ IvTimerFires
  \/ IvLastDelayOver
  \/ StWsDrains
  \/ StWsClosed
  \/ StTick

StreamClockNext ==
  \/ StStreamAudio
  \/ StFrameTimerFires
  \/ StBackpressurePoll
  \/ StDrainPoll
  \/ StWsDrains
  \/ StWsClosed
  \/ StTick

\* ------------------------------------------------------------ transferCall
\* Everything but the registry's calls and the transfer.
XferRest == <<cleanupTimers, cleanupPending, webhooks, endedEvents, swVars,
              flowVars, opVars, ttsVars, capVars, asrVars, pbVars, miscVars, speakErr,
              origAllowed, stoppedEvents>>

\* destroyBridge after bridges.destroy succeeded: clear the association of
\* the active calls and delete the bridge from the registry.
destroyBridgeCalls(cs) ==
  IF Has(cs) /\ cs[Cid].state \notin {"ended", "failed"}
     /\ cs[Cid].bridgeId = "b1"
  THEN clearBridge(cs) ELSE cs
\* A destroyBridge that forgets CallManager.deleteBridge.
destroyBridgeKeepsRecord(x) == [x EXCEPT !.sw = FALSE, !.destroyed = TRUE,
                                         !.pc = "done"]
destroyBridgeDone(x) == [x EXCEPT !.sw = FALSE, !.reg = FALSE,
                                  !.destroyed = TRUE, !.pc = "done"]

\* transferCall on a known call: createBridge sends bridges.create.
TransferInvoke ==
  /\ Has(calls) /\ xfer.pc = "idle"
  /\ xfer' = [xfer EXCEPT !.pc = "creating"]
  /\ UNCHANGED <<calls, XferRest>>

\* bridges.create settles: the bridge is registered and addChannelToBridge
\* sends its request (404 when the record is gone); a failure is thrown.
TransferBridgeCreated ==
  /\ xfer.pc = "creating"
  /\ \/ xfer' = [xfer EXCEPT !.sw = TRUE, !.reg = TRUE,
                             !.pc = IF Has(calls) THEN "adding" ELSE "done",
                             !.result = IF Has(calls) THEN @ ELSE "404"]
     \/ xfer' = [xfer EXCEPT !.pc = "done", !.result = "createFailed"]
  /\ UNCHANGED <<calls, XferRest>>

\* bridges.addChannel for the call settles: setBridge, then originate to the
\* target is started; a failure is thrown (nothing is cleaned up).
TransferCallAdded ==
  /\ xfer.pc = "adding"
  /\ \/ /\ Alive(chan)
        /\ calls' = setBridge(calls)
        /\ xfer' = [xfer EXCEPT !.pc = "originating"]
     \/ /\ xfer' = [xfer EXCEPT !.pc = "done", !.result = "addFailed"]
        /\ UNCHANGED calls
  /\ UNCHANGED XferRest

\* The switch dials the target while originate() is under way.
TransferTargetDialled ==
  /\ xfer.pc = "originating" /\ xfer.target = "none"
  /\ xfer' = [xfer EXCEPT !.target = "ringing"]
  /\ UNCHANGED <<calls, XferRest>>

\* originate() settles: on success the answer timeout is armed and the
\* listener installed; a failure is thrown (nothing is cleaned up).
TransferOriginated ==
  /\ xfer.pc = "originating"
  /\ \/ /\ xfer.target # "none"
        /\ xfer' = [xfer EXCEPT !.pc = "waiting"]
     \/ /\ xfer.target = "none"
        /\ xfer' = [xfer EXCEPT !.pc = "done", !.result = "originateFailed"]
  /\ UNCHANGED <<calls, XferRest>>

\* The target answers: call.state_changed(answered) of the new call.  The
\* listener, when installed, ends the wait and adds the target's channel.
TransferTargetAnswers ==
  /\ xfer.target = "ringing"
  /\ xfer' = [xfer EXCEPT !.target = "answered",
                          !.pc = IF @ = "waiting" THEN "addingTarget" ELSE @]
  /\ UNCHANGED <<calls, XferRest>>

\* The target leg ends: call.ended of the new call.  The listener, when
\* installed, rejects with 500 and the failure path sends bridges.destroy.
TransferTargetEnds ==
  /\ xfer.target \in {"ringing", "answered"}
  /\ xfer' = [xfer EXCEPT !.target = "ended",
                          !.pc = IF @ = "waiting" THEN "destroying" ELSE @,
                          !.result = IF xfer.pc = "waiting" THEN "500" ELSE @]
  /\ UNCHANGED <<calls, XferRest>>

\* The answer timeout fires: reject with 408, the failure path sends
\* bridges.destroy.
TransferTimeout ==
  /\ xfer.pc = "waiting"
  /\ xfer' = [xfer EXCEPT !.pc = "destroying", !.result = "408"]
  /\ UNCHANGED <<calls, XferRest>>

\* bridges.addChannel for the target settles: transferCall returns, or the
\* failure path sends bridges.destroy.
TransferTargetAdded ==
  /\ xfer.pc = "addingTarget"
  /\ \/ xfer' = [xfer EXCEPT !.pc = "done", !.result = "ok"]
     \/ xfer' = [xfer EXCEPT !.pc = "destroying", !.result = "addFailed"]
  /\ UNCHANGED <<calls, XferRest>>

\* bridges.destroy of the failure path settles: on success destroyBridge
\* clears and deletes the bridge; its failure is swallowed.  The error of
\* the wait is rethrown either way.
TransferBridgeDestroyed ==
  /\ xfer.pc = "destroying"
  /\ \/ /\ xfer' = destroyBridgeDone(xfer)
        /\ calls' = destroyBridgeCalls(calls)
     \/ /\ xfer' = [xfer EXCEPT !.pc = "done"]
        /\ UNCHANGED calls
  /\ UNCHANGED XferRest

TransferNext ==
  \/ TransferInvoke
  \/ TransferBridgeCreated
  \/ TransferCallAdded
  \/ TransferTargetDialled
  \/ TransferOriginated
  \/ TransferTargetAnswers
  \/ TransferTargetEnds
  \/ TransferTimeout
  \/ TransferTargetAdded
  \/ TransferBridgeDestroyed

\* ------------------------------------------------------------ speak without a TTS URL
\* connect() creates the TtsManager whether or not tts.url is configured,
\* so speak() passes its "TTS manager not initialized" test.  It enters
\* "speaking"; TtsClient.synthesize hands fetch() the URL
\* "undefined/v1/audio/speech", which rejects at once; speak's catch
\* rethrows it as AriError 502 and its finally restores the state.  All of
\* it runs before any other handler.
SpeakUnconfigured ==
  /\ OpsAllowed
  /\ opsLeft' = opsLeft - 1
  /\ calls' = speakFinally(updateState(calls, "speaking", FALSE),
                           StateOf(calls))
  /\ speakErr' = "502"
  /\ UNCHANGED <<cleanupTimers, cleanupPending, webhooks, endedEvents, swVars,
                 flowVars, hangupReq, hangupReason, play, recording, bridgeOp,
                 stopOp, capOp, ttsVars, capVars, asrVars, pbVars, miscVars, xfer,
                 origAllowed, stoppedEvents>>

\* The event WebSocket to the switch drops and reconnects
\* (WebSocketReconnecting, WebSocketConnected): the events the switch had
\* sent and the application had not yet received are lost.
EventLinkDrops ==
  /\ evq # <<>>
  /\ evq' = <<>>
  /\ UNCHANGED <<regVars, chan, inStasis, swPlaybacks, swRecording, swRes,
                 flowVars, opVars, ttsVars, capVars, asrVars, sideVars>>

\* playMedia on a call whose event link may drop.
PlayNext ==
  \/ PlayInvoke
  \/ PlayResponse
  \/ OnPlayFinished
  \/ OnPlayFailed
  \/ SwitchPlaybackFails
  \/ EventLinkDrops

\* ------------------------------------------------------------ wav-utils
\* Standard Asterisk slin sample rates, in the order the loop visits them.
SLIN_RATES == <<8000, 12000, 16000, 24000, 32000, 44100, 48000, 96000, 192000>>

\* The last w decimal digits of f, zero padded.
RECURSIVE PadDigits(_, _)
PadDigits(f, w) ==
  IF w = 0 THEN "" ELSE PadDigits(f \div 10, w - 1) \o ToString(f % 10)

\* The fraction f / 10^w as the digits after the decimal point.
RECURSIVE FractionDigits(_, _)
FractionDigits(f, w) ==
  IF f % 10 = 0 THEN FractionDigits(f \div 10, w - 1) ELSE PadDigits(f, w)

\* `${best / 1000}`: the number best / 1000 converted to a string.
ThousandthsToString(n) ==
  IF n % 1000 = 0
  THEN ToString(n \div 1000)
  ELSE ToString(n \div 1000) \o "." \o FractionDigits(n % 1000, 3)

\* for (const rate of SLIN_RATES) if (rate <= sampleRate) best = rate
RECURSIVE bestRate(_, _, _)
bestRate(rates, sampleRate, best) ==
  IF rates = <<>>
  THEN best
  ELSE bestRate(Tail(rates), sampleRate,
                IF Head(rates) <= sampleRate THEN Head(rates) ELSE best)

slinFormatName(sampleRate) ==
  LET best == bestRate(SLIN_RATES, sampleRate, 8000)
  IN  IF best = 8000 THEN "slin" ELSE "slin" \o ThousandthsToString(best)

\* Sample rates passed in: every multiple of 500 Hz up to the bound, and
\* the neighbours of the standard rates.
SampleRates ==
  {h * 500 : h \in 1..MaxRateSteps}
    \cup {SLIN_RATES[i] - 1 : i \in DOMAIN SLIN_RATES}
    \cup {SLIN_RATES[i] + 1 : i \in DOMAIN SLIN_RATES}

\* One call of slinFormatName.
SlinFormatNameCall ==
  /\ \E r \in SampleRates :
       /\ slinIn' = r
       /\ slinOut' = slinFormatName(r)
  /\ UNCHANGED <<regVars, swVars, flowVars, opVars, ttsVars, capVars, asrVars,
                 pbVars, xfer, speakErr, origAllowed, stoppedEvents,
                 lateVars>>

\* ------------------------------------------------------------ specification
\* The call's life: inbound and outbound flows, the switch, the event
\* handlers, hangup and the delayed removal of the record.
CallNext ==
  \/ InboundStasisStart
  \/ RingTimerFires
  \/ SwitchAnswer
  \/ AnswerResolved
  \/ AnswerRejected
  \/ GreetingPlayResponse
  \/ OnGreetingFinished
  \/ BeepResponse
  \/ SwitchPlaybackDone
  \/ RemoteHangup
  \/ OriginateInvoke
  \/ EndpointChecked
  \/ SwitchOriginate
  \/ OriginateResolved
  \/ OriginateRejected
  \/ SwitchRinging
  \/ SwitchRemoteAnswer
  \/ OnChannelUp
  \/ OnChannelRinging
  \/ OnOutboundStasisStart
  \/ OnChannelDestroyed
  \/ OnStasisEnd
  \/ HangupInvoke
  \/ SwitchHangup
  \/ HangupResolved
  \/ CleanupFires

\* Media operations on the call: speak, playMedia, startRecording, bridges.
MediaNext ==
  \/ SwitchPlaybackFails
  \/ \E s \in SpeakIds : SpeakInvoke(s)
  \/ \E s \in SpeakIds : SynthResponse(s)
  \/ \E s \in SpeakIds : UploadResponse(s)
  \/ \E s \in SpeakIds : SpeakPlayResponse(s)
  \/ \E s \in SpeakIds : OnSpeakPlaybackFinished(s)
  \/ \E s \in SpeakIds : OnSpeakPlaybackFailed(s)
  \/ PlayInvoke
  \/ PlayResponse
  \/ OnPlayFinished
  \/ OnPlayFailed
  \/ RecordInvoke
  \/ RecordResponse
  \/ SwitchRecordingDone
  \/ OnRecordingFinished
  \/ BridgeInvoke
  \/ BridgeResponse

\* The capture pipeline and the ASR session that follows it.
CaptureNext ==
  \/ StasisEndStopSettled
  \/ StartCaptureInvoke
  \/ StopCaptureInvoke
  \/ StopCaptureSettled
  \/ \E k \in CapIds : CapSnoopResponse(k)
  \/ \E k \in CapIds : CapExtResponse(k)
  \/ \E k \in CapIds : CapStasisStart(k)
  \/ \E k \in CapIds : CapBridgeResponse(k)
  \/ \E k \in CapIds : CapAddResponse(k)
  \/ \E k \in CapIds : CapWsResult(k)
  \/ \E k \in CapIds : CapFailSettled(k)
  \/ \E k \in CapIds : AsrConnectResult(k)
  \/ \E k \in CapIds : AsrFlushDone(k)

Next == CallNext \/ MediaNext \/ CaptureNext

Spec == Init /\ [][Next]_vars

\* The call alone: flows, events and hangup.
SpecCall == Init /\ [][CallNext]_vars

\* ------------------------------------------------------------ AsrClient reconnection
\* Everything but the reconnecting client.
RcRest == <<regVars, swVars, flowVars, opVars, ttsVars, capVars, asrVars,
            pbVars, slinVars, xfer, speakErr, origAllowed, stoppedEvents, pbs,
            td, stm,
            pm,
            intl,
            ac>>

\* maxReconnectAttempts the AsrManager configures on every client
maxReconnectAttempts == 10
\* endSession calls made on the session in one behaviour
MaxCloses == 2

\* AsrClient.connect() up to its await: nothing when the socket held is
\* OPEN; otherwise the closed flag is cleared and a new socket, CONNECTING,
\* replaces the one held.
connect(x) ==
  IF x.ws /\ x.sock = "open"
  THEN x
  ELSE [x EXCEPT !.closed = FALSE, !.ws = TRUE, !.sock = "connecting"]

\* AsrClient.close() up to its await: the flag is set, the reconnect timer
\* cleared; an OPEN socket is flushed first (the call suspends in
\* flushAndWait), any other socket is only forgotten and the call returns.
closeCall(x) ==
  LET y == [x EXCEPT !.closed = TRUE, !.timer = FALSE]
  IN IF y.ws /\ y.sock = "open"
     THEN [y EXCEPT !.flushing = @ + 1]
     ELSE [y EXCEPT !.ws = FALSE, !.done = @ + 1]

\* AsrManager.endSession: nothing without an entry; otherwise close() the
\* client and, once close() has returned, delete the entry.
endSession(x) ==
  IF ~x.session
  THEN x
  ELSE LET y == closeCall(x)
       IN IF y.flushing = x.flushing
          THEN [y EXCEPT !.session = FALSE]
          ELSE y

\* One close() resumes after flushAndWait: this.ws.close(); this.ws =
\* undefined; then endSession deletes the entry.  With this.ws already
\* undefined the call on it throws a TypeError and close() rejects.
closeResume(x) ==
  IF x.ws
  THEN [x EXCEPT !.sock = IF @ = "open" THEN "closing" ELSE @,
                 !.ws = FALSE, !.flushing = @ - 1, !.done = @ + 1,
                 !.session = FALSE]
  ELSE [x EXCEPT !.threw = TRUE, !.flushing = @ - 1]

\* Every suspended close() resumes, one after the other.
RECURSIVE resumeAll(_)
resumeAll(x) ==
  IF x.flushing = 0 THEN x ELSE resumeAll(closeResume(x))

\* AsrClient.scheduleReconnect: at the maximum the terminal event is
\* emitted and its handler in AsrManager ends the session; with a timer
\* armed nothing; otherwise one more attempt is counted and the timer
\* armed.
scheduleReconnect(x) ==
  IF maxReconnectAttempts > 0 /\ x.attempts >= maxReconnectAttempts
  THEN endSession([x EXCEPT !.terminal = TRUE])
  ELSE IF x.timer
       THEN x
       ELSE [x EXCEPT !.attempts = @ + 1, !.timer = TRUE]

\* The "open" handler that leaves the attempts counter alone.
onOpenKeepsAttempts(x) == x

\* The "open" handler connect() installs.
onOpen(x) == [x EXCEPT !.attempts = 0]

\* The "close" handler connect() installs.
onSocketClose(x) == IF ~x.closed THEN scheduleReconnect(x) ELSE x

\* The promise connect() awaits settles by rejection: startSession, when it
\* is the one awaiting, deletes the entry; the reconnect timer's callback
\* only logs.
connectRejected(x) ==
  [x EXCEPT !.connecting = "none",
            !.session = IF x.connecting = "initial" THEN FALSE ELSE @]

\* AsrManager.startSession up to the await of connect().
RcStartSession ==
  /\ ~rc.started
  /\ rc' = [connect(rc) EXCEPT !.started = TRUE, !.session = TRUE,
                               !.connecting = "initial"]
  /\ UNCHANGED RcRest

\* The socket opens.
RcSocketOpens ==
  /\ rc.sock = "connecting"
  /\ rc' = [onOpen(rc) EXCEPT !.sock = "open", !.connecting = "none"]
  /\ UNCHANGED RcRest

\* The connection attempt fails: "error", then "close".
RcSocketFails ==
  /\ rc.sock = "connecting"
  /\ rc' = onSocketClose([connectRejected(rc) EXCEPT !.sock = "closed"])
  /\ UNCHANGED RcRest

\* The 5 s timer of connect() fires first; the socket stays as it is.
RcConnectTimeout ==
  /\ rc.sock = "connecting"
  /\ rc.connecting # "none"
  /\ rc' = connectRejected(rc)
  /\ UNCHANGED RcRest

\* The open socket is closed by the server or the network.
RcSocketDrops ==
  /\ rc.sock = "open"
  /\ rc' = resumeAll(onSocketClose([rc EXCEPT !.sock = "closed"]))
  /\ UNCHANGED RcRest

\* The close handshake ws.close() began completes.
RcSocketClosed ==
  /\ rc.sock = "closing"
  /\ rc' = resumeAll(onSocketClose([rc EXCEPT !.sock = "closed"]))
  /\ UNCHANGED RcRest

\* The server answers the flush with a final result: the "message" listener
\* of every flushAndWait resolves its promise.
RcFlushFinal ==
  /\ rc.sock = "open"
  /\ rc.flushing > 0
  /\ rc' = resumeAll(rc)
  /\ UNCHANGED RcRest

\* The 2 s timer of one flushAndWait fires.
RcFlushTimeout ==
  /\ rc.flushing > 0
  /\ rc' = closeResume(rc)
  /\ UNCHANGED RcRest

\* The reconnect timer fires: connect() again.
RcReconnectTimerFires ==
  /\ rc.timer
  /\ rc' = [connect([rc EXCEPT !.timer = FALSE]) EXCEPT
              !.connecting = "reconnect"]
  /\ UNCHANGED RcRest

\* The "capture.stopped" handler: asrManager.endSession(callId).
RcEndSession ==
  /\ rc.session
  /\ rc.calls < MaxCloses
  /\ rc' = endSession([rc EXCEPT !.calls = @ + 1])
  /\ UNCHANGED RcRest

ReconnectNext ==
  \/ RcStartSession
  \/ RcSocketOpens
  \/ RcSocketFails
  \/ RcConnectTimeout
  \/ RcSocketDrops
  \/ RcSocketClosed
  \/ RcFlushFinal
  \/ RcFlushTimeout
  \/ RcReconnectTimerFires
  \/ RcEndSession

\* One ASR session with its reconnecting client.
SpecReconnect == Init /\ [][ReconnectNext]_vars

\* ------------------------------------------------------------ AudioPlaybackManager
\* Everything but the playback manager.
PmRest == <<regVars, swVars, flowVars, opVars, ttsVars, capVars, asrVars,
            pbVars, slinVars, xfer, speakErr, origAllowed, stoppedEvents, pbs,
            td, stm, rc,
            intl,
            ac>>

SessIds == 1..MaxSessions
PmOps == 1..MaxPlaybackOps

DoneOp == [pc |-> "done", kind |-> "none", on |-> 0]

\* The "stopped" handler startPlayback installs on session i:
\* this.playbacks.delete(callId), whichever session the entry refers to.
onStopped(x, i) ==
  [x EXCEPT !.entry = 0, !.stale = @ \/ (x.entry \notin {0, i})]

\* startPlayback from `new AudioPlayback` to the await of start(), as call o.
createPlayback(x, o) ==
  LET n == x.made + 1
  IN [x EXCEPT !.made = n, !.entry = n,
               !.sess[n] = [pc |-> "starting", res |-> FALSE],
               !.ops[o] = [pc |-> "startWait", kind |-> "start", on |-> n]]

\* Call o resumes after the stop() / cancel() it awaited: stopPlayback and
\* cancelPlayback delete the entry and return; startPlayback, resuming after
\* its cancelPlayback, goes on to create its session.
afterStop(x, o, kind) ==
  LET y == [x EXCEPT !.entry = 0]
  IN IF kind = "start"
     THEN createPlayback(y, o)
     ELSE [y EXCEPT !.ops[o] = DoneOp]

\* AudioPlayback.stop() resumes after cleanup(): active = false, "stopped"
\* is emitted.
stopResumes(x, i) == onStopped([x EXCEPT !.sess[i].pc = "stopped"], i)

\* Call o of the given kind runs stop() on session i: a session that is
\* not active returns at once; an active one starts cleanup(), which
\* sends the releases and waits for them; an active one whose handles a
\* cleanup() has already taken has nothing to wait for.
stopFor(x, o, kind, i) ==
  IF x.sess[i].pc # "active"
  THEN afterStop(x, o, kind)
  ELSE IF x.sess[i].res
       THEN [x EXCEPT !.sess[i].res = FALSE,
                      !.ops[o] = [pc |-> "stopWait", kind |-> kind, on |-> i]]
       ELSE afterStop(stopResumes(x, i), o, kind)

IdleOps == {o \in PmOps : pm.ops[o].pc = "idle"}
NextOp == CHOOSE o \in IdleOps : \A q \in IdleOps : o <= q
StartsBegun ==
  pm.made + Cardinality({o \in PmOps : pm.ops[o].pc = "stopWait" /\
                                       pm.ops[o].kind = "start"})

\* startPlayback(callId, ...).
PmStartPlayback ==
  /\ IdleOps # {}
  /\ StartsBegun < MaxSessions
  /\ pm' = IF pm.entry # 0
           THEN stopFor(pm, NextOp, "start", pm.entry)
           ELSE createPlayback(pm, NextOp)
  /\ UNCHANGED PmRest

\* stopPlayback(callId) or cancelPlayback(callId) with an entry present.
PmStopPlayback ==
  /\ IdleOps # {}
  /\ pm.entry # 0
  /\ \E kind \in {"stop", "cancel"} :
       pm' = stopFor(pm, NextOp, kind, pm.entry)
  /\ UNCHANGED PmRest

\* The releases of a cleanup() have settled: stop() resumes, then the
\* call that awaited it.
PmStopSettles ==
  /\ \E o \in PmOps :
       /\ pm.ops[o].pc = "stopWait"
       /\ pm' = afterStop(stopResumes(pm, pm.ops[o].on), o, pm.ops[o].kind)
  /\ UNCHANGED PmRest

\* start() of session i has its external-media channel.
PmSessionAcquires ==
  /\ \E i \in SessIds :
       /\ pm.sess[i].pc = "starting" /\ ~pm.sess[i].res
       /\ pm' = [pm EXCEPT !.sess[i].res = TRUE]
  /\ UNCHANGED PmRest

\* start() of session i completes: active = true, startPlayback returns.
PmStartDone ==
  /\ \E i \in SessIds :
       /\ pm.sess[i].pc = "starting" /\ pm.sess[i].res
       /\ pm' = [pm EXCEPT !.sess[i].pc = "active",
                           !.ops = [o \in PmOps |->
                                      IF pm.ops[o].pc = "startWait" /\
                                         pm.ops[o].on = i
                                      THEN DoneOp ELSE pm.ops[o]]]
  /\ UNCHANGED PmRest

\* start() of session i fails: cleanup(), the error is rethrown and the
\* catch of startPlayback deletes the entry of the call.
PmStartFails ==
  /\ \E i \in SessIds :
       /\ pm.sess[i].pc = "starting"
       /\ pm' = [pm EXCEPT !.sess[i] = [pc |-> "failed", res |-> FALSE],
                           !.entry = 0,
                           !.ops = [o \in PmOps |->
                                      IF pm.ops[o].pc = "startWait" /\
                                         pm.ops[o].on = i
                                      THEN DoneOp ELSE pm.ops[o]]]
  /\ UNCHANGED PmRest

PlaybackManagerNext ==
  \/ PmStartPlayback
  \/ PmStopPlayback
  \/ PmStopSettles
  \/ PmSessionAcquires
  \/ PmStartDone
  \/ PmStartFails

\* The playback manager of one call under start, stop and cancel calls.
SpecPlaybackManager == Init /\ [][PlaybackManagerNext]_vars

\* ------------------------------------------------------------ internal channels
\* Everything but the internal channel's StasisStart.
IntlRest == <<regVars, swVars, flowVars, opVars, ttsVars, capVars, asrVars,
              pbVars, slinVars, xfer, speakErr, origAllowed, stoppedEvents,
              pbs, td, stm, rc, pm,
            ac>>

\* Prefixes of the channel ids the application creates itself: snoop
\* channels, the external-media channels of capture and of playback.
InternalPrefixes == {"snoop-", "audiocap-", "ttsplay-"}

\* The prefixes the StasisStart handler skips.
skipped(prefix) == prefix \in {"snoop-", "audiocap-"}

\* The StasisStart handler on a channel with an internal id (no "dialed"
\* argument, not a tracked channel, no caller number): skipped by prefix,
\* or checked against the inbound allowlist and then hung up or taken as a
\* new inbound call with its record and ring-delay timer.
InternalStasisStart ==
  /\ intl.prefix = "none"
  /\ \E prefix \in InternalPrefixes, list \in InboundLists :
       intl' = IF skipped(prefix)
               THEN [intl EXCEPT !.prefix = prefix]
               ELSE IF isInboundAllowed(list, <<>>)
                    THEN [intl EXCEPT !.prefix = prefix, !.checked = TRUE,
                                      !.record = TRUE, !.ringTimer = TRUE]
                    ELSE [intl EXCEPT !.prefix = prefix, !.checked = TRUE,
                                      !.hangup = TRUE]
  /\ UNCHANGED IntlRest

\* Call flows beside the StasisStart of an internal channel.
SpecInternal == Init /\ [][CallNext \/ InternalStasisStart]_vars

\* ------------------------------------------------------------ AriConnection
\* Everything but the switch adapter.
AcRest == <<regVars, swVars, flowVars, opVars, ttsVars, capVars, asrVars,
            pbVars, slinVars, xfer, speakErr, origAllowed, stoppedEvents, pbs,
            td, stm, rc, pm, intl>>

\* The clients whose event socket is up: started and not stopped.
Live(x) == x.started \ x.stopped

\* AriConnection.connect() up to the await of ariClient.connect.
ariConnect(x) == [x EXCEPT !.pc = "connecting", !.connects = @ + 1]

\* AriConnection.scheduleReconnect: arm the 5 s timer unless one is armed.
ariScheduleReconnect(x) == [x EXCEPT !.timer = TRUE]

\* A connect() that, having succeeded, schedules a reconnect all the same.
connectedThenReconnects(x) ==
  LET n == x.clients + 1
  IN ariScheduleReconnect(
       [x EXCEPT !.pc = "idle", !.clients = n, !.ari = n,
                 !.handlers = @ \cup {n}, !.started = @ \cup {n},
                 !.connected = TRUE])

\* connect() after ariClient.connect resolved: the client is stored, new
\* managers are created with their listeners, setupEventHandlers installs
\* the handlers on the client, the application is started and the flag set.
connectResolved(x) ==
  LET n == x.clients + 1
  IN [x EXCEPT !.pc = "idle", !.clients = n, !.ari = n,
               !.handlers = @ \cup {n}, !.started = @ \cup {n},
               !.connected = TRUE]

\* connect() after ariClient.connect rejected: the catch schedules a
\* reconnect.
connectRejectedAri(x) ==
  ariScheduleReconnect([x EXCEPT !.pc = "idle", !.failures = @ + 1])

\* main: await ariConn.connect().
AcConnect ==
  /\ ac.connects = 0
  /\ ac' = ariConnect(ac)
  /\ UNCHANGED AcRest

AcConnectResolves ==
  /\ ac.pc = "connecting"
  /\ ac' = connectResolved(ac)
  /\ UNCHANGED AcRest

AcConnectRejects ==
  /\ ac.pc = "connecting"
  /\ ac' = connectRejectedAri(ac)
  /\ UNCHANGED AcRest

\* The reconnect timer fires: connect() again.
AcReconnectTimerFires ==
  /\ ac.timer
  /\ ac.connects < MaxConnects
  /\ ac' = ariConnect([ac EXCEPT !.timer = FALSE])
  /\ UNCHANGED AcRest

\* The event socket of a live client drops; the client library reconnects
\* it on its own: WebSocketReconnecting clears the flag.
AcWsReconnecting ==
  /\ Live(ac) \cap ac.handlers # {}
  /\ ac.connected
  /\ ac' = [ac EXCEPT !.connected = FALSE]
  /\ UNCHANGED AcRest

\* WebSocketConnected sets the flag again.
AcWsConnected ==
  /\ Live(ac) \cap ac.handlers # {}
  /\ ~ac.connected
  /\ ac' = [ac EXCEPT !.connected = TRUE]
  /\ UNCHANGED AcRest

\* The switch sends an event of the application to every live client; each
\* client with handlers installed runs them.
AcSwitchEvent ==
  /\ Live(ac) # {}
  /\ ac.events < MaxAdapterEvents
  /\ ac' = [ac EXCEPT !.events = @ + 1,
                      !.handled = @ + Cardinality(Live(ac) \cap ac.handlers)]
  /\ UNCHANGED AcRest

\* AriConnection.disconnect(): the timer is cleared, the sessions and
\* captures of the managers are stopped, the client is stopped and
\* forgotten, the flag cleared.
AcDisconnect ==
  /\ ~ac.disc
  /\ ac.connects > 0
  /\ ac' = IF ac.ari # 0
           THEN [ac EXCEPT !.timer = FALSE, !.disc = TRUE,
                           !.stopped = @ \cup {ac.ari}, !.ari = 0,
                           !.connected = FALSE]
           ELSE [ac EXCEPT !.timer = FALSE, !.disc = TRUE]
  /\ UNCHANGED AcRest

AdapterNext ==
  \/ AcConnect
  \/ AcConnectResolves
  \/ AcConnectRejects
  \/ AcReconnectTimerFires
  \/ AcWsReconnecting
  \/ AcWsConnected
  \/ AcSwitchEvent
  \/ AcDisconnect

\* The switch adapter from its first connect() to disconnect().
SpecAdapter == Init /\ [][AdapterNext]_vars

\* The call with its media operations; capture requests stay unanswered.
SpecMedia == Init /\ [][CallNext \/ MediaNext]_vars

\* The call with its capture pipeline; no media operation is invoked.
SpecCapture == Init /\ [][CallNext \/ CaptureNext]_vars

\* One AsrClient and its socket.
SpecAsr == Init /\ [][AsrNext]_vars

\* Call flows with speak, no TTS URL configured.
SpecNoTts == Init /\ [][CallNext \/ SpeakUnconfigured]_vars

\* Call flows with transferCall.
SpecTransfer == Init /\ [][CallNext \/ TransferNext]_vars

\* One AudioPlayback stream alone.
SpecPlayback == Init /\ [][PlaybackNext]_vars

\* Call flows with playMedia over an event link that may drop.
SpecPlayLoss == Init /\ [][CallNext \/ PlayNext]_vars

\* One playback session from startPlayback on, beside one audio stream.
SpecPbStart == Init /\ [][PbStartNext \/ PlaybackNext]_vars

\* The teardown of one audio capture.
SpecTeardown == Init /\ [][TeardownNext]_vars

\* One streamAudio call followed against the clock.
SpecStreamClock == Init /\ [][StreamClockNext]_vars

\* One streamAudio call of the setInterval version against the clock.
SpecStreamInterval == Init /\ [][StreamIntervalNext]_vars

\* slinFormatName alone.
SpecSlin == Init /\ [][SlinFormatNameCall]_vars


\* ------------------------------------------------------------ claims
\* C1: whenever the call's record is ended, every handle of the call has
\* been torn down: no capture resource (snoop channel, external-media
\* channel, bridge, media socket), no playback and no ASR session is live,
\* whichever path ended the call.  A start of the capture pipeline that
\* is still running or that raced the call's end (C4), and an ASR socket
\* that close() is flushing, are not counted against the claim.
Starting(k) == cap[k].pc \in {"snoopReq", "extReq", "waitStasis", "bridgeReq",
                               "addReq", "wsConnect", "failing"}
C1_EndedTornDown ==
  (StateOf(calls) = "ended"
     /\ \A k \in CapIds : ~Starting(k) /\ ~cap[k].raced) =>
    /\ \A k \in CapIds : swRes[k] = {}
    /\ swPlaybacks = {}
    /\ \A k \in AsrLive(asr) : asr[k].ws = "flushing"

\* C2: once the record is ended no step changes any of its attributes; the
\* only later change is the removal of the record from the registry.
C2_EndedFrozen ==
  [][StateOf(calls) = "ended" => (calls' = calls \/ ~Has(calls'))]_vars

\* C3: at every emission of call.ended (every path that ends the call) the
\* call's TTS request has been cancelled and its ASR session is closed.
TtsPending == inFlight # 0 \/ \E s \in SpeakIds : speak[s].pc = "synth"
C3_CancelledBeforeEnded ==
  [][endedEvents' > endedEvents =>
       (~TtsPending' /\ clients' = 0 /\ AsrLive(asr') = {})]_vars

\* C4: when the call ended while a start of the capture pipeline was in
\* progress, or had ended before the start was invoked, then once every
\* pending step has settled nothing the start allocated is left: no snoop
\* channel, external-media channel, bridge or media socket, and no ASR
\* session.
Settled ==
  /\ \A k \in CapIds : /\ cap[k].pc \in {"none", "active", "stopped", "failed"}
                       /\ asr[k].ws \in {"none", "open", "orphanOpen", "closed"}
  /\ stopOp.pc = "idle"
  /\ stasisEnd.pc = "idle"
  /\ hangupReq = "none"
  /\ answerReq \in {"none", "done"}
  /\ origReq \in {"none", "done"}
  /\ evq = <<>>
C4_NoLeakWhenEndRacesStart ==
  Settled =>
    \A k \in CapIds :
      (cap[k].pc # "none" /\ cap[k].raced) =>
        (swRes[k] = {} /\ k \notin AsrLive(asr))

\* C5: when a speak, playMedia or recording operation that took the call
\* from answered / ready into speaking / playing / recording completes, with
\* success or with an error, the call is back in the state it held when
\* the operation began.  Checked where the call has not ended, is in no
\* bridge, and no other media or bridge operation is still running.
Entry == {"answered", "ready"}
Finished == {"done", "failed"}
Open(cs) == StateOf(cs) \notin {"none", "ended"}
MediaIdle ==
  /\ \A s \in SpeakIds : speak[s].pc \in Finished \cup {"idle"}
  /\ play.pc \in Finished \cup {"idle"}
  /\ recording.pc \in {"idle", "failed"} \/ recording.finished
  /\ bridgeOp = "idle"
  /\ Has(calls) => calls[Cid].bridgeId = "none"
C5_StateRestored ==
  [][(Open(calls') /\ MediaIdle') =>
       /\ \A s \in SpeakIds :
            (speak[s].pc \notin Finished \cup {"idle"} /\ speak'[s].pc \in Finished
               /\ speak[s].prev \in Entry)
            => StateOf(calls') = speak[s].prev
       /\ (play.pc \in {"req", "wait"} /\ play'.pc \in Finished
             /\ play.prev \in Entry)
          => StateOf(calls') = play.prev
       /\ (recording.pc = "started" /\ ~recording.finished
             /\ recording'.finished /\ recording.prev \in Entry)
          => StateOf(calls') = recording.prev]_vars

\* C6: every change of the record's state is a permitted transition; an
\* outbound call never goes from initiating to answered nor from answered
\* back to ringing.
Busy == {"playing", "speaking", "recording", "bridged"}
Permitted(a, b) ==
  \/ a = "none" /\ b \in {"initiating", "ringing"}
  \/ a = "initiating" /\ b \in {"ringing", "failed"}
  \/ a = "ringing" /\ b = "answered"
  \/ a = "answered" /\ b = "ready"
  \/ a = "ready" /\ b \in Busy
  \/ a \in Busy /\ b = "ready"
  \/ b = "ended"
  \/ a \in {"ended", "failed"} /\ b = "none"
C6_PermittedTransitions ==
  [][StateOf(calls') # StateOf(calls) =>
       Permitted(StateOf(calls), StateOf(calls'))]_vars

\* C7: an allowed inbound call that nobody hangs up produces one
\* call.inbound, at most one call.answered and at most one call.ready, and
\* exactly one of each once its flow is through, whatever the order of the
\* answer response and the Up event.
NotHungUp ==
  /\ flow \in InboundFlow \ {"denied"}
  /\ chan \in {"ring", "up"}
  /\ hangupReq = "none"
  /\ Open(calls)
C7_OneNotificationEach ==
  NotHungUp =>
    /\ webhooks["call.inbound"] = 1
    /\ webhooks["call.answered"] <= 1
    /\ webhooks["call.ready"] <= 1
    /\ (flow = "inDone" /\ answerReq = "done" /\ StateOf(calls) = "ready") =>
         (webhooks["call.answered"] = 1 /\ webhooks["call.ready"] = 1)

\* C8: when the ring-delay timer fires on a call that has ended (or whose
\* record is gone), no answer request is sent, and the call is never
\* answered or ready after the timer found it so.
C8_NoAnswerAfterEnd ==
  [][/\ (flow = "timer" /\ flow' # "timer"
          /\ (~Has(calls) \/ calls[Cid].endedAt)) => answerReq' = "none"
     /\ flow' = "noAnswer" =>
          (answerReq' = "none" /\ StateOf(calls') \notin {"answered", "ready"})]_vars

\* C10: a speak whose TTS request was cancelled by a later speak never has
\* its audio played into the call.
C10_CancelledNeverPlayed ==
  \A s \in SpeakIds :
    (\E t \in SpeakIds : t > s /\ speak[t].pc # "idle" /\ s \in aborted)
      => s \notin playedAudio

\* C9, as stated: during close() the flush is sent before the socket is
\* closed, and every is_final transcription the server sends after it got
\* the flush and before close() closes the socket is emitted before the
\* socket is closed and before the session is reported disconnected.
IsEmission(x, id) == x.e = "transcription" /\ x.id = id
FlushFirst ==
  \A j \in DOMAIN log : log[j] = WsClose => \E i \in 1..(j - 1) : log[i] = Flush
EmittedBefore(id, j) == \E i \in 1..(j - 1) : IsEmission(log[i], id)
C9_EveryFinalBeforeClose ==
  /\ FlushFirst
  /\ \A j \in DOMAIN log :
       log[j] \in {WsClose, Disconnected} =>
         \A id \in DOMAIN msgs :
           (msgs[id].final /\ msgs[id].afterFlush /\ msgs[id].beforeClose)
             => EmittedBefore(id, j)

\* C9, amended: during close() the flush is sent before the socket is
\* closed; a transcription that arrives while close() waits (the is_final
\* one that ends the wait included) is emitted before the socket is closed
\* and before the session is reported disconnected; and every is_final
\* transcription the server sent is emitted before the session is reported
\* disconnected, though it may be after close() has closed the socket.
C9_FlushedFinalBeforeClose ==
  /\ FlushFirst
  /\ \A j \in DOMAIN log :
       (log[j].e = "transcription" /\ log[j].waiting) =>
         \A i \in 1..(j - 1) : log[i] \notin {WsClose, Disconnected}
  /\ \A j \in DOMAIN log :
       log[j] = Disconnected =>
         \A id \in DOMAIN msgs : msgs[id].final => EmittedBefore(id, j)

\* C9 witness: close() flushed, the server's is_final answer arrived during
\* the wait and was emitted, then the socket was closed and the session
\* reported disconnected.
C9_Witness ==
  /\ closePc = "done"
  /\ \E i, j, k, l \in DOMAIN log :
       /\ i < j /\ j < k /\ k < l
       /\ log[i] = Flush
       /\ log[j].e = "transcription" /\ log[j].final /\ log[j].waiting
       /\ msgs[log[j].id].afterFlush
       /\ log[k] = WsClose
       /\ log[l] = Disconnected

\* C11: a streamAudio promise that is pending after stop() / cancel() can
\* still be resolved by a step of the scheduler (so that it resolves), and
\* no frame is sent after the cancel.
StreamPending == pbPc \in {"frameWait", "backpressure", "drain"}
C11_CancelledStreamResolves ==
  pbStop # "idle" =>
    /\ StreamPending =>
         ENABLED (FrameTimerFires \/ BackpressurePoll \/ DrainPoll)
    /\ ~pbLate

\* C12 as claimed: after a transfer failed with the no-answer error (408)
\* the transfer bridge is neither on the switch nor in the bridge registry.
C12_NoBridgeAfterTimeout ==
  (xfer.pc = "done" /\ xfer.result = "408") => (~xfer.sw /\ ~xfer.reg)

\* C12, amended: a transfer whose target does not answer within the timeout
\* fails with 408 once its bridges.destroy request has settled; when that
\* request succeeded the bridge is gone from the switch and the registry;
\* when it failed the failure is swallowed and the bridge stays on the
\* switch and in the registry.
C12_BridgeDestroyedUnlessDestroyFails ==
  /\ xfer.result = "408" => xfer.pc \in {"destroying", "done"}
  /\ (xfer.pc = "done" /\ xfer.result = "408") =>
       IF xfer.destroyed
       THEN ~xfer.sw /\ ~xfer.reg
       ELSE xfer.sw /\ xfer.reg

\* C12 witness: the timeout fired and the bridge was destroyed.
C12_Witness ==
  /\ xfer.pc = "done" /\ xfer.result = "408" /\ xfer.destroyed
  /\ ~xfer.sw /\ ~xfer.reg

\* C13: without a TTS URL a speak fails with the not-implemented error
\* (501) and leaves the call's state as it was before the speak.
C13_NotImplementedStateKept ==
  [][speakErr' # speakErr =>
       (speakErr' = "501" /\ StateOf(calls') = StateOf(calls))]_vars

\* C14: an originate whose destination the outbound allowlist denies
\* creates no CallRecord and sends no originate request to the switch.
C14_DeniedOriginateDoesNothing ==
  origAllowed = "denied" => (~Has(calls) /\ origReq = "none")

\* C15: for an inbound channel whose caller the allowlist denies, the
\* channel is released, the outcome is recorded as failed, the call is
\* never ringing or answered and no ring-delay timer is armed.
C15_DeniedInboundRecordedFailed ==
  flow = "denied" =>
    /\ chan = "gone"
    /\ StateOf(calls) = "failed"
    /\ answerReq = "none"

\* C16: after the switch rejected the originate request the CallRecord
\* created for it is in the terminal state failed (until it is removed).
C16_RejectedOriginateFailed ==
  flow = "origFailed" => StateOf(calls) \in {"failed", "none"}

\* C17: stopCapture calls on the same call, sequential or overlapping,
\* make a capture emit its stopped event once.
C17_OneStoppedEvent == \A k \in CapIds : stoppedEvents[k] <= 1

\* C18: a startCapture on a known call that has a registered capture fails
\* and leaves the capture, the manager entry and the switch resources
\* untouched, and at most one capture session of the call is being set up
\* or active at any time.
CaptureSessions ==
  {k \in CapIds : cap[k].pc \in {"snoopReq", "extReq", "waitStasis",
                                 "bridgeReq", "addReq", "wsConnect", "active"}}
C18_OneCaptureSession ==
  [][/\ (StartCaptureInvoke /\ Has(calls) /\ captures # 0) =>
          (capOp' = "failed" /\ UNCHANGED <<cap, captures, swRes>>)
     /\ Cardinality(CaptureSessions') <= 1]_vars

\* C19: every emission of call.ended is matched by a call.ended webhook
\* POST, whichever path ended the call: once the channel is gone, every
\* event of the switch has been handled and no hangup or StasisEnd handler
\* is pending, a call.ended webhook has been issued if a call.ended event
\* was emitted.
EndSettled ==
  /\ ~Alive(chan) /\ evq = <<>>
  /\ hangupReq = "none" /\ stasisEnd.pc = "idle"
C19_EndedWebhook ==
  (EndSettled /\ endedEvents > 0) => webhooks["call.ended"] > 0

\* C20: slinFormatName returns slin for 8000, slin16 for 16000, slin24 for
\* 24000, slin32 for 32000, slin44 for 44100, slin48 for 48000, slin96 for
\* 96000 and slin192 for 192000, and for a rate that is none of these the
\* codec name of the nearest lower rate among them.
ListedRates == <<8000, 16000, 24000, 32000, 44100, 48000, 96000, 192000>>
ListedNames ==
  <<"slin", "slin16", "slin24", "slin32", "slin44", "slin48", "slin96",
    "slin192">>
ListedCodec(r) ==
  LET below == {i \in DOMAIN ListedRates : ListedRates[i] <= r}
      i == CHOOSE j \in below : \A k \in below : k <= j
  IN  ListedNames[i]
C20_SlinMapping ==
  (slinOut # "none" /\ slinIn >= ListedRates[1]) =>
     slinOut = ListedCodec(slinIn)

\* C21: playMedia terminates even if neither PlaybackFinished nor
\* PlaybackFailed ever arrives: while playMedia waits, something that
\* settles it is still to come (the playback runs on the switch or one of
\* its events is on the way; playMedia arms no deadline of its own).
PlayEventComing ==
  \/ PlayTag \in swPlaybacks
  \/ \E i \in DOMAIN evq : evq[i].tag = PlayTag
C21_PlayMediaSettles == play.pc = "wait" => PlayEventComing

\* C22: when a step of capture or playback startup has failed or timed out
\* and the error has reached the caller, no switch resource of that start
\* is left (snoop channel, external-media channel, bridge, media socket),
\* also not one whose creation request timed out and was granted later,
\* and the manager keeps no entry for it.
PlaybackStartReleased ==
  (pbs.pc = "failed" /\ pbs.late = {}) =>
     (pbs.res = {} /\ ~pbs.entry /\ pbs.err)
CaptureStartReleased ==
  \A k \in CapIds :
     cap[k].pc = "failed" => (swRes[k] = {} /\ captures # k)
C22_FailedStartReleasesAll == PlaybackStartReleased /\ CaptureStartReleased

\* C23: capture teardown attempts every release even when some of them
\* fail; a stop() returns only when every release has settled, and after
\* a stop() of an active capture has returned the capture holds no
\* handle.
TdStopped == td.had # {} /\ ~td.active
TdAllAttempted == TdStopped => td.attempted = td.had
TdNoHandleLeft == TdStopped => td.held = {}
TdNoEarlyReturn == ~td.early
C23_TeardownBestEffort == TdAllAttempted /\ TdNoHandleLeft /\ TdNoEarlyReturn

\* C24: in capture startup the media socket is connected before the mixing
\* bridge is created and before a channel is added to it: while start()
\* is adding the channels to the bridge it has created, the capture's
\* media socket is already open.
C24_SocketBeforeBridge ==
  \A k \in CapIds :
     (cap[k].pc = "addReq" /\ "bridge" \in swRes[k]) => "ws" \in swRes[k]

\* C25: the delay armed before frame i is max(0, startTime + i * 20 ms -
\* now), so a late timer shortens the next delay and lateness does not
\* accumulate, and no frame i is sent before startTime + i * 20 ms.
FrameSent == stm'.idx = stm.idx + 1
FrameDelayFromClock ==
  [][(FrameSent /\ stm'.pc = "frameWait") =>
        stm'.due = Max(stm'.now, stm'.start + stm'.idx * chunkMs)]_vars
NoFrameEarly == ~stm.early
C25_DriftFreePacing == FrameDelayFromClock /\ []NoFrameEarly

AllSent(x) == x.idx >= MaxChunks
DrainedOrDeadline ==
  [][(AllSent(stm) /\ stm.pc # "resolved" /\ stm'.pc = "resolved") =>
        (stm'.buf = 0 \/ stm'.now >= stm'.dl \/ ~stOpen(stm'))]_vars
ResolvedByDeadline ==
  (AllSent(stm) /\ TimerArmed(stm) /\ stm.pc \in {"drain", "lastDelay"}) =>
     stm.now <= stm.dl + PollMs + MaxLateMs
C27_ResolveAfterDrain == DrainedOrDeadline /\ []ResolvedByDeadline


\* C28: close() of the ASR client always completes without error: no call
\* of it throws, and once every call made has settled the client holds no
\* socket.
CloseNeverThrows == ~rc.threw
CloseLeavesNoSocket == (rc.closed /\ rc.flushing = 0) => ~rc.ws
C28_CloseCompletes == CloseNeverThrows /\ CloseLeavesNoSocket

\* C29: after an unintentional socket close a reconnect is scheduled while
\* attempts remain; the attempts counter never exceeds the configured
\* maximum and is 0 after every open; once the terminal event has been
\* emitted the manager has no entry for the call.
AttemptsBounded == rc.attempts <= maxReconnectAttempts
TerminalRemovesSession == rc.terminal => ~rc.session
ResetOnOpen ==
  [][(rc.sock = "connecting" /\ rc'.sock = "open") => rc'.attempts = 0]_vars
ScheduledAfterDrop ==
  [][(/\ rc.sock \in {"connecting", "open"}
      /\ rc'.sock = "closed"
      /\ ~rc.closed
      /\ rc.attempts < maxReconnectAttempts) => rc'.timer]_vars
TerminalAtMaximum ==
  [][(/\ rc.sock \in {"connecting", "open"}
      /\ rc'.sock = "closed"
      /\ ~rc.closed
      /\ rc.attempts = maxReconnectAttempts) => rc'.terminal /\ ~rc'.timer]_vars
C29_BoundedReconnect ==
  /\ []AttemptsBounded
  /\ []TerminalRemovesSession
  /\ ResetOnOpen
  /\ ScheduledAfterDrop
  /\ TerminalAtMaximum
C29_Witness ==
  /\ rc.terminal
  /\ rc.closed
  /\ ~rc.session
  /\ rc.attempts = maxReconnectAttempts

\* C30: once close() has been called on the client no reconnect timer is
\* armed, and once its close() calls have settled no socket of the client
\* is open.
ClosedNoReconnect == rc.closed => ~rc.timer
ClosedNoOpenSocket == (rc.closed /\ rc.flushing = 0) => rc.sock # "open"
C30_ClosedStaysClosed == ClosedNoReconnect /\ ClosedNoOpenSocket


\* C31: on every open of the ASR socket the client puts the configuration
\* message on the socket, as the first message sent on it.
C31_ConfigFirstOnOpen ==
  [][(asrWs = "CONNECTING" /\ asrWs' = "OPEN") =>
       (toServer' # <<>> /\ toServer'[Len(toServer')] = "config")]_vars

\* C39: every transcription message the client has received was emitted
\* exactly once, and none that is still on its way was emitted.
Emissions(id) ==
  Cardinality({j \in DOMAIN log : IsEmission(log[j], id)})
OnItsWay(id) ==
  \E i \in DOMAIN toClient : toClient[i].k = "msg" /\ toClient[i].id = id
C39_EmittedExactlyOnce ==
  \A id \in DOMAIN msgs :
    Emissions(id) = IF OnItsWay(id) THEN 0 ELSE 1


\* C34: every removal timer that is pending is tracked in cleanupTimers, so
\* that clearAllTimers() at any moment would leave no removal timer pending.
clearAllTimers(pending, tracked) == pending - Cardinality(tracked)
C34_NoTimerAfterShutdown == clearAllTimers(cleanupPending, cleanupTimers) = 0


\* C35: when startSession has failed (the entry is gone without any
\* endSession and without the terminal event) the client holds no socket,
\* has no reconnect timer armed and no socket of it is connecting or open.
StartSessionFailed ==
  /\ rc.started /\ rc.connecting = "none"
  /\ ~rc.session /\ rc.calls = 0 /\ ~rc.terminal
C35_FailedStartIsInert ==
  StartSessionFailed =>
    (~rc.ws /\ ~rc.timer /\ rc.sock \notin {"connecting", "open"})


\* C36: once every startPlayback, stopPlayback and cancelPlayback call has
\* settled, at most one session holds switch resources and the entry of the
\* call refers to it; and no "stopped" event of a session has removed the
\* entry of another session.
PmSettled ==
  /\ \A o \in PmOps : pm.ops[o].pc \in {"idle", "done"}
  /\ \A i \in SessIds : pm.sess[i].pc # "starting"
Holders == {i \in SessIds : pm.sess[i].res}
OneHolderInEntry ==
  PmSettled => (Cardinality(Holders) <= 1 /\ \A i \in Holders : pm.entry = i)
NoStaleRemoval == ~pm.stale
C36_OneSessionPerCall == OneHolderInEntry /\ NoStaleRemoval


\* C33: the StasisStart of a channel whose id begins with a reserved
\* internal prefix creates no CallRecord, is not checked against the
\* inbound allowlist, is not hung up and arms no ring-delay timer.
C33_InternalChannelsSuppressed ==
  intl.prefix \in InternalPrefixes =>
    (~intl.record /\ ~intl.checked /\ ~intl.hangup /\ ~intl.ringTimer)


\* C37: after a transfer failed because the originate to the target failed,
\* the transfer bridge is neither on the switch nor in the bridge registry
\* and the call is neither in state bridged nor associated with the bridge.
OriginateFailedTransfer == xfer.pc = "done" /\ xfer.result = "originateFailed"
C37_OriginateFailureCleansUp ==
  OriginateFailedTransfer =>
    /\ ~xfer.sw /\ ~xfer.reg
    /\ Has(calls) => (calls[Cid].state # "bridged" /\ calls[Cid].bridgeId # "b1")


\* C38: every change of the record's state is announced by an event that
\* carries the new state.  updateState and end emit call.state_changed and
\* call.ended on every call; the steps that change the state without any
\* event are those of setBridge (the only writer of "bridged") and of
\* clearBridge (from "bridged" back to "answered", the bridge id cleared).
BridgeIdOf(cs) == IF Has(cs) THEN cs[Cid].bridgeId ELSE "none"
SetBridgeStep ==
  StateOf(calls) # "bridged" /\ StateOf(calls') = "bridged"
ClearBridgeStep ==
  /\ StateOf(calls) = "bridged" /\ StateOf(calls') = "answered"
  /\ BridgeIdOf(calls) # "none" /\ BridgeIdOf(calls') = "none"
C38_StateChangesAnnounced == [][~SetBridgeStep /\ ~ClearBridgeStep]_vars


\* C32: after any sequence of failed connects and reconnects every switch
\* event delivered has been handled exactly once, the handlers are
\* installed on no more than one client whose socket is up, and whenever
\* handlers are installed no earlier client is left with handlers.
EventsHandledOnce == ac.handled = ac.events
OneHandlerSet == Cardinality(Live(ac) \cap ac.handlers) <= 1
NoStaleListeners ==
  [][ac'.handlers # ac.handlers => Cardinality(ac'.handlers) = 1]_vars
C40_StaysDisconnected ==
  ac.disc => (~ac.timer /\ ~ac.connected /\ ac.ari = 0 /\ Live(ac) = {})

====
